---- MODULE Spec2Model ----
(***************************************************************************)
(* A state-machine model of two in-memory backends of moto:                *)
(*   - GreengrassBackend (src/moto/greengrass/models.py): groups, the five *)
(*     definition kinds, their version collections and the group-version   *)
(*     cross-reference validation;                                         *)
(*   - GlueBackend (src/moto/glue/models.py): databases, tables,           *)
(*     partitions, crawlers, jobs and the tag store.                       *)
(* Every public backend method is one action; an action covers the whole   *)
(* method, including the nested calls it makes.  Timestamps are left out:  *)
(* no modelled decision reads them.                                        *)
(***************************************************************************)
EXTENDS Integers, Sequences, FiniteSets, TLC

(***************************************************************************)
(* Bounds of the model.                                                    *)
(***************************************************************************)
\* number of uuid4() calls one behaviour may make in the greengrass backend
MaxUuid == 4

\* number of state-changing glue calls one behaviour may make
MaxGlueOps == 4

VARIABLES
    \* ---- GreengrassBackend.__init__ ----
    groups, group_versions,
    core_definitions, core_definition_versions,
    device_definitions, device_definition_versions,
    function_definitions, function_definition_versions,
    resource_definitions, resource_definition_versions,
    subscription_definitions, subscription_definition_versions,
    \* number of uuid4() values handed out so far
    uuid_count,
    \* the region of the backend that the twelve stores above belong to
    region_name,
    \* the stores of the backends of the other regions
    others,
    \* ---- GlueBackend.__init__ ----
    databases, crawlers, jobs, tagger, registries,
    \* number of state-changing glue calls made so far
    glue_ops,
    \* the create_table calls that run side by side: for each caller the
    \* statement it is at, its arguments and its outcome
    callers,
    \* the last completed backend call: its name, arguments and outcome
    last

groupVars == <<groups, group_versions>>
coreVars == <<core_definitions, core_definition_versions>>
deviceVars == <<device_definitions, device_definition_versions>>
functionVars == <<function_definitions, function_definition_versions>>
resourceVars == <<resource_definitions, resource_definition_versions>>
subscriptionVars == <<subscription_definitions, subscription_definition_versions>>
regionVars == <<region_name, others>>
ggVars == <<groupVars, coreVars, deviceVars, functionVars, resourceVars,
            subscriptionVars, uuid_count, regionVars>>
glueVars == <<databases, crawlers, jobs, tagger, registries, glue_ops, callers>>
vars == <<ggVars, glueVars, last>>

(***************************************************************************)
(* Python containers.                                                      *)
(*   OrderedDict / dict : a sequence of <<key, value>> entries in          *)
(*                        insertion order, keys unique.                    *)
(*   a request payload (a JSON object): a set of <<key, value>> pairs.     *)
(***************************************************************************)
OD_Empty == <<>>

OD_Keys(od) == {od[i][1] : i \in DOMAIN od}

OD_Has(od, k) == k \in OD_Keys(od)

OD_Index(od, k) == CHOOSE i \in DOMAIN od : od[i][1] = k

OD_Get(od, k) == od[OD_Index(od, k)][2]

\* od[k] = v: an existing key keeps its position, a new key goes last
OD_Set(od, k, v) ==
    IF OD_Has(od, k)
    THEN [i \in DOMAIN od |-> IF od[i][1] = k THEN <<k, v>> ELSE od[i]]
    ELSE Append(od, <<k, v>>)

\* del od[k]
OD_Del(od, k) == SelectSeq(od, LAMBDA e : e[1] # k)

\* od.get(k, {})
OD_GetOrEmpty(od, k) == IF OD_Has(od, k) THEN OD_Get(od, k) ELSE OD_Empty

DictHas(d, k) == \E p \in d : p[1] = k

DictGet(d, k) == (CHOOSE p \in d : p[1] = k)[2]

\* d.get(k, default)
DictGetOr(d, k, default) == IF DictHas(d, k) THEN DictGet(d, k) ELSE default

(***************************************************************************)
(* Identifiers and ARNs.                                                   *)
(* uuid4() is modelled by a counter: the n-th call returns the string of   *)
(* n, so that two calls never return the same value.  An ARN is the        *)
(* sequence of the "/"-separated parts of the string; its first part is    *)
(* the sequence of the ":"-separated fields.  The empty string is <<>>.    *)
(***************************************************************************)
uuid4(n) == ToString(n)

\* the values uuid4() has returned so far
IssuedUuids == {uuid4(i) : i \in 1..uuid_count}

\* a well-formed uuid that uuid4() never returns in the model
UnknownUuid == "0"

\* a token that is not 36 characters of [a-z0-9-]
NotAUuid == "NOT_A_UUID"

\* strings of the shape [a-z0-9-]{36}
IsUuidShaped(s) == s # NotAUuid

OtherRegion == "eu-west-1"

\* the regions that have a backend
RegionNames == {"us-east-1", OtherRegion}

ACCOUNT_ID == "123456789012"

EmptyString == <<>>

None == <<"None">>

ArnPrefix(region) == <<"arn", "aws", "greengrass", region, ACCOUNT_ID, "greengrass">>

\* f"arn:aws:greengrass:{region}:{account}:greengrass/definition/{kind}/{id}"
DefinitionArn(region, kind, id) == <<ArnPrefix(region), "definition", kind, id>>

\* f".../greengrass/definition/{kind}/{id}/versions/{version}"
DefinitionVersionArn(region, kind, id, version) ==
    <<ArnPrefix(region), "definition", kind, id, "versions", version>>

\* f"arn:aws:greengrass:{region}:{account}:greengrass/groups/{id}"
GroupArn(region, id) == <<ArnPrefix(region), "groups", id>>

\* f".../greengrass/groups/{group_id}/versions/{version}"
GroupVersionArn(region, id, version) ==
    <<ArnPrefix(region), "groups", id, "versions", version>>

Kinds == {"cores", "devices", "functions", "resources", "subscriptions"}


(***************************************************************************)
(* Strings that the code inspects character by character are sequences of *)
(* one-character strings.                                                  *)
(***************************************************************************)
\* s.startswith(p)
StartsWith(s, p) == Len(s) >= Len(p) /\ SubSeq(s, 1, Len(p)) = p

PATH_SYS == <<"/", "s", "y", "s">>

PATH_SYS_SLASH == <<"/", "s", "y", "s", "/">>

PATH_DEV == <<"/", "d", "e", "v">>

(***************************************************************************)
(* Entities (the Fake* classes).  latest_version is "" and                 *)
(* latest_version_arn is the empty string until a version is created.      *)
(***************************************************************************)
FakeCoreDefinition(region, name, id) ==
    [id |-> id, name |-> name, arn |-> DefinitionArn(region, "cores", id),
     latest_version |-> "", latest_version_arn |-> EmptyString]

FakeCoreDefinitionVersion(region, core_definition_id, definition, version) ==
    [core_definition_id |-> core_definition_id, definition |-> definition,
     version |-> version,
     arn |-> DefinitionVersionArn(region, "cores", core_definition_id, version)]

FakeDeviceDefinition(region, name, initial_version, id) ==
    [id |-> id, name |-> name, arn |-> DefinitionArn(region, "devices", id),
     latest_version |-> "", latest_version_arn |-> EmptyString,
     initial_version |-> initial_version]

FakeDeviceDefinitionVersion(region, device_definition_id, devices, version) ==
    [device_definition_id |-> device_definition_id, devices |-> devices,
     version |-> version,
     arn |-> DefinitionVersionArn(region, "devices", device_definition_id, version)]

FakeResourceDefinition(region, name, initial_version, id) ==
    [id |-> id, name |-> name, arn |-> DefinitionArn(region, "resources", id),
     latest_version |-> "", latest_version_arn |-> EmptyString,
     initial_version |-> initial_version]

FakeResourceDefinitionVersion(region, resource_definition_id, resources, version) ==
    [resource_definition_id |-> resource_definition_id, resources |-> resources,
     version |-> version,
     arn |-> DefinitionVersionArn(region, "resources", resource_definition_id, version)]

FakeFunctionDefinition(region, name, initial_version, id) ==
    [id |-> id, name |-> name, arn |-> DefinitionArn(region, "functions", id),
     latest_version |-> "", latest_version_arn |-> EmptyString,
     initial_version |-> initial_version]

FakeFunctionDefinitionVersion(region, function_definition_id, functions, default_config, version) ==
    [function_definition_id |-> function_definition_id, functions |-> functions,
     default_config |-> default_config, version |-> version,
     arn |-> DefinitionVersionArn(region, "functions", function_definition_id, version)]

FakeSubscriptionDefinition(region, name, initial_version, id) ==
    [id |-> id, name |-> name, arn |-> DefinitionArn(region, "subscriptions", id),
     latest_version |-> "", latest_version_arn |-> EmptyString,
     initial_version |-> initial_version]

FakeSubscriptionDefinitionVersion(region, subscription_definition_id, subscriptions, version) ==
    [subscription_definition_id |-> subscription_definition_id,
     subscriptions |-> subscriptions, version |-> version,
     arn |-> DefinitionVersionArn(region, "subscriptions", subscription_definition_id, version)]

FakeGroup(region, name, id) ==
    [id |-> id, name |-> name, arn |-> GroupArn(region, id),
     latest_version |-> "", latest_version_arn |-> EmptyString]

\* refs: the five definition-version ARNs (or None), one per kind
FakeGroupVersion(region, group_id, refs, version) ==
    [group_id |-> group_id, version |-> version,
     arn |-> GroupVersionArn(region, group_id, version),
     core_definition_version_arn |-> refs.cores,
     device_definition_version_arn |-> refs.devices,
     function_definition_version_arn |-> refs.functions,
     resource_definition_version_arn |-> refs.resources,
     subscription_definition_version_arn |-> refs.subscriptions]

(***************************************************************************)
(* The outcome of a method on one kind's pair of maps: the maps and the    *)
(* uuid counter as the method leaves them, the exception it raised ("ok"   *)
(* when it returned) and what it returned or reported.                     *)
(***************************************************************************)
Outcome(defs, vers, n, res, ret) ==
    [defs |-> defs, vers |-> vers, n |-> n, res |-> res, ret |-> ret]

\* the record of a completed call
Call(op, id, args, o) ==
    [op |-> op, id |-> id, args |-> args, res |-> o.res, ret |-> o.ret]

\* identifiers a caller may pass for a kind: every id in its two maps and
\* one that was never handed out
IdInputs(defs, vers) == OD_Keys(defs) \cup OD_Keys(vers) \cup {UnknownUuid}

Names == {"n1"}


(***************************************************************************)
(* Core definitions.                                                       *)
(***************************************************************************)
\* create_core_definition_version: no check that the parent exists; with an
\* unknown parent the version is stored and the update of the parent's
\* latest_version then raises KeyError
create_core_definition_version(defs, vers, n, core_definition_id, cores) ==
    LET definition == {<<"Cores", cores>>}
        core_def_ver == FakeCoreDefinitionVersion(region_name, core_definition_id,
                                                  definition, uuid4(n + 1))
        core_def_vers == OD_Set(OD_GetOrEmpty(vers, core_definition_id),
                                core_def_ver.version, core_def_ver)
        vers1 == OD_Set(vers, core_definition_id, core_def_vers)
    IN  IF ~OD_Has(defs, core_definition_id)
        THEN Outcome(defs, vers1, n + 1, "KeyError", None)
        ELSE Outcome(OD_Set(defs, core_definition_id,
                            [OD_Get(defs, core_definition_id) EXCEPT
                                !.latest_version = core_def_ver.version,
                                !.latest_version_arn = core_def_ver.arn]),
                     vers1, n + 1, "ok", core_def_ver)

\* create_core_definition: the parent is registered before
\* initial_version["Cores"] is read
create_core_definition(defs, vers, n, name, initial_version) ==
    LET core_definition == FakeCoreDefinition(region_name, name, uuid4(n + 1))
        defs1 == OD_Set(defs, core_definition.id, core_definition)
    IN  IF ~DictHas(initial_version, "Cores")
        THEN Outcome(defs1, vers, n + 1, "KeyError", None)
        ELSE LET o == create_core_definition_version(
                          defs1, vers, n + 1, core_definition.id,
                          DictGet(initial_version, "Cores"))
             IN  Outcome(o.defs, o.vers, o.n, o.res, core_definition.id)

get_core_definition(defs, vers, n, core_definition_id) ==
    IF ~OD_Has(defs, core_definition_id)
    THEN Outcome(defs, vers, n, "IdNotFoundException", None)
    ELSE Outcome(defs, vers, n, "ok", OD_Get(defs, core_definition_id))

\* delete_core_definition: two del statements, the second on the version map
delete_core_definition(defs, vers, n, core_definition_id) ==
    IF ~OD_Has(defs, core_definition_id)
    THEN Outcome(defs, vers, n, "IdNotFoundException", None)
    ELSE IF ~OD_Has(vers, core_definition_id)
         THEN Outcome(OD_Del(defs, core_definition_id), vers, n, "KeyError", None)
         ELSE Outcome(OD_Del(defs, core_definition_id),
                      OD_Del(vers, core_definition_id), n, "ok", None)

CoreLists == {<<"core1">>, <<"core1", "core2">>}

\* initial_version payloads: one with "Cores", one without
CoreInitialVersions == {{<<"Cores", <<"core1">>>>}, {}}

ApplyCore(op, id, args, o) ==
    /\ core_definitions' = o.defs
    /\ core_definition_versions' = o.vers
    /\ uuid_count' = o.n
    /\ last' = Call(op, id, args, o)
    /\ UNCHANGED <<groupVars, deviceVars, functionVars, resourceVars,
                   subscriptionVars, glueVars, regionVars>>

CreateCoreDefinition ==
    \E name \in Names, initial_version \in CoreInitialVersions :
        /\ uuid_count + 2 <= MaxUuid
        /\ ApplyCore("create_core_definition", uuid4(uuid_count + 1), initial_version,
                     create_core_definition(core_definitions, core_definition_versions,
                                            uuid_count, name, initial_version))

CreateCoreDefinitionVersion ==
    \E id \in IdInputs(core_definitions, core_definition_versions), cores \in CoreLists :
        /\ uuid_count + 1 <= MaxUuid
        /\ ApplyCore("create_core_definition_version", id, cores,
                     create_core_definition_version(core_definitions,
                                                    core_definition_versions,
                                                    uuid_count, id, cores))

GetCoreDefinition ==
    \E id \in IdInputs(core_definitions, core_definition_versions) :
        ApplyCore("get_core_definition", id, None,
                  get_core_definition(core_definitions, core_definition_versions,
                                      uuid_count, id))

DeleteCoreDefinition ==
    \E id \in IdInputs(core_definitions, core_definition_versions) :
        ApplyCore("delete_core_definition", id, None,
                  delete_core_definition(core_definitions, core_definition_versions,
                                         uuid_count, id))

(***************************************************************************)
(* Device definitions.                                                     *)
(***************************************************************************)
\* create_device_definition_version without the update of the parent's
\* latest_version and latest_version_arn
create_device_definition_version_no_latest(defs, vers, n, device_definition_id, devices) ==
    IF ~OD_Has(defs, device_definition_id)
    THEN Outcome(defs, vers, n, "IdNotFoundException", None)
    ELSE LET device_ver == FakeDeviceDefinitionVersion(region_name, device_definition_id,
                                                       devices, uuid4(n + 1))
             device_vers == OD_Set(OD_GetOrEmpty(vers, device_definition_id),
                                   device_ver.version, device_ver)
         IN  Outcome(defs, OD_Set(vers, device_definition_id, device_vers),
                     n + 1, "ok", device_ver)

create_device_definition_version(defs, vers, n, device_definition_id, devices) ==
    IF ~OD_Has(defs, device_definition_id)
    THEN Outcome(defs, vers, n, "IdNotFoundException", None)
    ELSE LET device_ver == FakeDeviceDefinitionVersion(region_name, device_definition_id,
                                                       devices, uuid4(n + 1))
             device_vers == OD_Set(OD_GetOrEmpty(vers, device_definition_id),
                                   device_ver.version, device_ver)
         IN  Outcome(OD_Set(defs, device_definition_id,
                            [OD_Get(defs, device_definition_id) EXCEPT
                                !.latest_version = device_ver.version,
                                !.latest_version_arn = device_ver.arn]),
                     OD_Set(vers, device_definition_id, device_vers),
                     n + 1, "ok", device_ver)

create_device_definition(defs, vers, n, name, initial_version) ==
    LET device_def == FakeDeviceDefinition(region_name, name, initial_version,
                                           uuid4(n + 1))
        init_device_def == DictGetOr(device_def.initial_version, "Devices", <<>>)
        o == create_device_definition_version(
                 OD_Set(defs, device_def.id, device_def), vers, n + 1,
                 device_def.id, init_device_def)
    IN  Outcome(o.defs, o.vers, o.n, o.res, device_def.id)

get_device_definition(defs, vers, n, device_definition_id) ==
    IF ~OD_Has(defs, device_definition_id)
    THEN Outcome(defs, vers, n, "IdNotFoundException", None)
    ELSE Outcome(defs, vers, n, "ok", OD_Get(defs, device_definition_id))

delete_device_definition(defs, vers, n, device_definition_id) ==
    IF ~OD_Has(defs, device_definition_id)
    THEN Outcome(defs, vers, n, "IdNotFoundException", None)
    ELSE IF ~OD_Has(vers, device_definition_id)
         THEN Outcome(OD_Del(defs, device_definition_id), vers, n, "KeyError", None)
         ELSE Outcome(OD_Del(defs, device_definition_id),
                      OD_Del(vers, device_definition_id), n, "ok", None)

DeviceLists == {<<"device1">>, <<"device1", "device2">>}

DeviceInitialVersions == {{<<"Devices", <<"device1">>>>}}

ApplyDevice(op, id, args, o) ==
    /\ device_definitions' = o.defs
    /\ device_definition_versions' = o.vers
    /\ uuid_count' = o.n
    /\ last' = Call(op, id, args, o)
    /\ UNCHANGED <<groupVars, coreVars, functionVars, resourceVars,
                   subscriptionVars, glueVars, regionVars>>

CreateDeviceDefinition ==
    \E name \in Names, initial_version \in DeviceInitialVersions :
        /\ uuid_count + 2 <= MaxUuid
        /\ ApplyDevice("create_device_definition", uuid4(uuid_count + 1),
                       initial_version,
                       create_device_definition(device_definitions,
                                                device_definition_versions,
                                                uuid_count, name, initial_version))

CreateDeviceDefinitionVersion ==
    \E id \in IdInputs(device_definitions, device_definition_versions), devices \in DeviceLists :
        /\ uuid_count + 1 <= MaxUuid
        /\ ApplyDevice("create_device_definition_version", id, devices,
                       create_device_definition_version(device_definitions,
                                                        device_definition_versions,
                                                        uuid_count, id, devices))

GetDeviceDefinition ==
    \E id \in IdInputs(device_definitions, device_definition_versions) :
        ApplyDevice("get_device_definition", id, None,
                    get_device_definition(device_definitions,
                                          device_definition_versions, uuid_count, id))

DeleteDeviceDefinition ==
    \E id \in IdInputs(device_definitions, device_definition_versions) :
        ApplyDevice("delete_device_definition", id, None,
                    delete_device_definition(device_definitions,
                                             device_definition_versions,
                                             uuid_count, id))

(***************************************************************************)
(* Function definitions.                                                   *)
(***************************************************************************)
\* args: <<functions, default_config>>
\* create_function_definition_version that starts a new collection for
\* the version it creates
create_function_definition_version_replacing(defs, vers, n, function_definition_id, args) ==
    IF ~OD_Has(defs, function_definition_id)
    THEN Outcome(defs, vers, n, "IdNotFoundException", None)
    ELSE LET func_ver == FakeFunctionDefinitionVersion(region_name,
                             function_definition_id, args[1], args[2], uuid4(n + 1))
             func_vers == OD_Set(OD_Empty, func_ver.version, func_ver)
         IN  Outcome(OD_Set(defs, function_definition_id,
                            [OD_Get(defs, function_definition_id) EXCEPT
                                !.latest_version = func_ver.version,
                                !.latest_version_arn = func_ver.arn]),
                     OD_Set(vers, function_definition_id, func_vers),
                     n + 1, "ok", func_ver)

create_function_definition_version(defs, vers, n, function_definition_id, args) ==
    IF ~OD_Has(defs, function_definition_id)
    THEN Outcome(defs, vers, n, "IdNotFoundException", None)
    ELSE LET func_ver == FakeFunctionDefinitionVersion(region_name,
                             function_definition_id, args[1], args[2], uuid4(n + 1))
             func_vers == OD_Set(OD_GetOrEmpty(vers, function_definition_id),
                                 func_ver.version, func_ver)
         IN  Outcome(OD_Set(defs, function_definition_id,
                            [OD_Get(defs, function_definition_id) EXCEPT
                                !.latest_version = func_ver.version,
                                !.latest_version_arn = func_ver.arn]),
                     OD_Set(vers, function_definition_id, func_vers),
                     n + 1, "ok", func_ver)

create_function_definition(defs, vers, n, name, initial_version) ==
    LET func_def == FakeFunctionDefinition(region_name, name, initial_version,
                                           uuid4(n + 1))
        init_func_def == DictGetOr(func_def.initial_version, "Functions", <<>>)
        init_config == DictGetOr(func_def.initial_version, "DefaultConfig", <<>>)
        o == create_function_definition_version(
                 OD_Set(defs, func_def.id, func_def), vers, n + 1,
                 func_def.id, <<init_func_def, init_config>>)
    IN  Outcome(o.defs, o.vers, o.n, o.res, func_def.id)

get_function_definition(defs, vers, n, function_definition_id) ==
    IF ~OD_Has(defs, function_definition_id)
    THEN Outcome(defs, vers, n, "IdNotFoundException", None)
    ELSE Outcome(defs, vers, n, "ok", OD_Get(defs, function_definition_id))

delete_function_definition(defs, vers, n, function_definition_id) ==
    IF ~OD_Has(defs, function_definition_id)
    THEN Outcome(defs, vers, n, "IdNotFoundException", None)
    ELSE IF ~OD_Has(vers, function_definition_id)
         THEN Outcome(OD_Del(defs, function_definition_id), vers, n, "KeyError", None)
         ELSE Outcome(OD_Del(defs, function_definition_id),
                      OD_Del(vers, function_definition_id), n, "ok", None)

FunctionLists == {<<"function1">>, <<"function1", "function2">>}

DefaultConfigs == {<<"config1">>}

FunctionInitialVersions ==
    {{<<"Functions", <<"function1">>>>, <<"DefaultConfig", <<"config1">>>>}}

ApplyFunction(op, id, args, o) ==
    /\ function_definitions' = o.defs
    /\ function_definition_versions' = o.vers
    /\ uuid_count' = o.n
    /\ last' = Call(op, id, args, o)
    /\ UNCHANGED <<groupVars, coreVars, deviceVars, resourceVars,
                   subscriptionVars, glueVars, regionVars>>

CreateFunctionDefinition ==
    \E name \in Names, initial_version \in FunctionInitialVersions :
        /\ uuid_count + 2 <= MaxUuid
        /\ ApplyFunction("create_function_definition", uuid4(uuid_count + 1),
                         initial_version,
                         create_function_definition(function_definitions,
                                                    function_definition_versions,
                                                    uuid_count, name, initial_version))

CreateFunctionDefinitionVersion ==
    \E id \in IdInputs(function_definitions, function_definition_versions),
       functions \in FunctionLists, default_config \in DefaultConfigs :
        /\ uuid_count + 1 <= MaxUuid
        /\ ApplyFunction("create_function_definition_version", id,
                         <<functions, default_config>>,
                         create_function_definition_version(
                             function_definitions, function_definition_versions,
                             uuid_count, id, <<functions, default_config>>))

GetFunctionDefinition ==
    \E id \in IdInputs(function_definitions, function_definition_versions) :
        ApplyFunction("get_function_definition", id, None,
                      get_function_definition(function_definitions,
                                              function_definition_versions,
                                              uuid_count, id))

DeleteFunctionDefinition ==
    \E id \in IdInputs(function_definitions, function_definition_versions) :
        ApplyFunction("delete_function_definition", id, None,
                      delete_function_definition(function_definitions,
                                                 function_definition_versions,
                                                 uuid_count, id))


(***************************************************************************)
(* Resource definitions.                                                   *)
(* A resource is a JSON object: {"ResourceDataContainer": {<data kind>:    *)
(* {"SourcePath": <path>}}}.                                               *)
(***************************************************************************)
\* a validation that refuses every path with the prefix "/sys"
ResourceError_sys_prefix(resource) ==
    LET container == DictGetOr(resource, "ResourceDataContainer", {})
        volume_source_path ==
            DictGetOr(DictGetOr(container, "LocalVolumeResourceData", {}),
                      "SourcePath", EmptyString)
        local_device_resource_data == DictGetOr(container, "LocalDeviceResourceData", {})
    IN  IF StartsWith(volume_source_path, PATH_SYS)
        THEN "Accessing /sys is prohibited"
        ELSE IF /\ local_device_resource_data # {}
                /\ ~StartsWith(DictGet(local_device_resource_data, "SourcePath"), PATH_DEV)
             THEN "Device resource path should begin with /dev"
             ELSE ""

\* the error one resource raises in _validate_resources, "" when it passes
ResourceError(resource) ==
    LET container == DictGetOr(resource, "ResourceDataContainer", {})
        volume_source_path ==
            DictGetOr(DictGetOr(container, "LocalVolumeResourceData", {}),
                      "SourcePath", EmptyString)
        local_device_resource_data == DictGetOr(container, "LocalDeviceResourceData", {})
    IN  IF volume_source_path = PATH_SYS \/ StartsWith(volume_source_path, PATH_SYS_SLASH)
        THEN "Accessing /sys is prohibited"
        ELSE IF /\ local_device_resource_data # {}
                /\ ~StartsWith(DictGet(local_device_resource_data, "SourcePath"), PATH_DEV)
             THEN "Device resource path should begin with /dev"
             ELSE ""

\* _validate_resources: raises on the first resource that fails; <<>> when
\* every resource passes, else the one error detail
_validate_resources(resources) ==
    IF \A i \in DOMAIN resources : ResourceError(resources[i]) = ""
    THEN <<>>
    ELSE LET first == CHOOSE i \in DOMAIN resources :
                          /\ ResourceError(resources[i]) # ""
                          /\ \A j \in 1..(i - 1) : ResourceError(resources[j]) = ""
         IN  <<ResourceError(resources[first])>>

create_resource_definition_version(defs, vers, n, resource_definition_id, resources) ==
    IF ~OD_Has(defs, resource_definition_id)
    THEN Outcome(defs, vers, n, "IdNotFoundException", None)
    ELSE IF _validate_resources(resources) # <<>>
    THEN Outcome(defs, vers, n, "GreengrassClientError", _validate_resources(resources))
    ELSE LET resource_def_ver == FakeResourceDefinitionVersion(region_name,
                                     resource_definition_id, resources, uuid4(n + 1))
             resources_ver == OD_Set(OD_GetOrEmpty(vers, resource_definition_id),
                                     resource_def_ver.version, resource_def_ver)
         IN  Outcome(OD_Set(defs, resource_definition_id,
                            [OD_Get(defs, resource_definition_id) EXCEPT
                                !.latest_version = resource_def_ver.version,
                                !.latest_version_arn = resource_def_ver.arn]),
                     OD_Set(vers, resource_definition_id, resources_ver),
                     n + 1, "ok", resource_def_ver)

\* create_resource_definition: the resources are validated before the parent
\* is registered
\* create_resource_definition that registers the definition and validates
\* afterwards
create_resource_definition_registering_first(defs, vers, n, name, initial_version) ==
    LET resource_def == FakeResourceDefinition(region_name, name, initial_version,
                                               uuid4(n + 1))
        resources == DictGetOr(resource_def.initial_version, "Resources", <<>>)
    IN  IF _validate_resources(resources) # <<>>
        THEN Outcome(OD_Set(defs, resource_def.id, resource_def), vers, n + 1,
                     "GreengrassClientError", _validate_resources(resources))
        ELSE LET o == create_resource_definition_version(
                          OD_Set(defs, resource_def.id, resource_def), vers, n + 1,
                          resource_def.id, resources)
             IN  Outcome(o.defs, o.vers, o.n, o.res,
                         IF o.res = "ok" THEN resource_def.id ELSE o.ret)

create_resource_definition(defs, vers, n, name, initial_version) ==
    LET resources0 == DictGetOr(initial_version, "Resources", <<>>)
    IN  IF _validate_resources(resources0) # <<>>
        THEN Outcome(defs, vers, n, "GreengrassClientError",
                     _validate_resources(resources0))
        ELSE LET resource_def == FakeResourceDefinition(region_name, name,
                                     initial_version, uuid4(n + 1))
                 resources == DictGetOr(resource_def.initial_version, "Resources", <<>>)
                 o == create_resource_definition_version(
                          OD_Set(defs, resource_def.id, resource_def), vers, n + 1,
                          resource_def.id, resources)
             IN  Outcome(o.defs, o.vers, o.n, o.res,
                         IF o.res = "ok" THEN resource_def.id ELSE o.ret)

get_resource_definition(defs, vers, n, resource_definition_id) ==
    IF ~OD_Has(defs, resource_definition_id)
    THEN Outcome(defs, vers, n, "IdNotFoundException", None)
    ELSE Outcome(defs, vers, n, "ok", OD_Get(defs, resource_definition_id))

delete_resource_definition(defs, vers, n, resource_definition_id) ==
    IF ~OD_Has(defs, resource_definition_id)
    THEN Outcome(defs, vers, n, "IdNotFoundException", None)
    ELSE IF ~OD_Has(vers, resource_definition_id)
         THEN Outcome(OD_Del(defs, resource_definition_id), vers, n, "KeyError", None)
         ELSE Outcome(OD_Del(defs, resource_definition_id),
                      OD_Del(vers, resource_definition_id), n, "ok", None)

LocalVolumeResource(path) ==
    {<<"ResourceDataContainer", {<<"LocalVolumeResourceData", {<<"SourcePath", path>>}>>}>>}

LocalDeviceResource(path) ==
    {<<"ResourceDataContainer", {<<"LocalDeviceResourceData", {<<"SourcePath", path>>}>>}>>}

PATH_TMP == <<"/", "t", "m", "p">>

PATH_DEV_NULL == <<"/", "d", "e", "v", "/", "n", "u", "l", "l">>

PATH_SYSTEM == <<"/", "s", "y", "s", "t", "e", "m">>

ResourceLists ==
    {<<LocalVolumeResource(PATH_SYSTEM)>>,
     <<LocalDeviceResource(PATH_DEV_NULL)>>,
     <<LocalDeviceResource(PATH_TMP)>>}

ResourceInitialVersions ==
    {{<<"Resources", <<LocalVolumeResource(PATH_TMP)>>>>},
     {<<"Resources", <<LocalVolumeResource(PATH_TMP), LocalVolumeResource(PATH_SYS)>>>>}}

ApplyResource(op, id, args, o) ==
    /\ resource_definitions' = o.defs
    /\ resource_definition_versions' = o.vers
    /\ uuid_count' = o.n
    /\ last' = Call(op, id, args, o)
    /\ UNCHANGED <<groupVars, coreVars, deviceVars, functionVars,
                   subscriptionVars, glueVars, regionVars>>

CreateResourceDefinition ==
    \E name \in Names, initial_version \in ResourceInitialVersions :
        /\ uuid_count + 2 <= MaxUuid
        /\ ApplyResource("create_resource_definition", uuid4(uuid_count + 1),
                         initial_version,
                         create_resource_definition(resource_definitions,
                                                    resource_definition_versions,
                                                    uuid_count, name, initial_version))

CreateResourceDefinitionVersion ==
    \E id \in IdInputs(resource_definitions, resource_definition_versions), resources \in ResourceLists :
        /\ uuid_count + 1 <= MaxUuid
        /\ ApplyResource("create_resource_definition_version", id, resources,
                         create_resource_definition_version(
                             resource_definitions, resource_definition_versions,
                             uuid_count, id, resources))

GetResourceDefinition ==
    \E id \in IdInputs(resource_definitions, resource_definition_versions) :
        ApplyResource("get_resource_definition", id, None,
                      get_resource_definition(resource_definitions,
                                              resource_definition_versions,
                                              uuid_count, id))

DeleteResourceDefinition ==
    \E id \in IdInputs(resource_definitions, resource_definition_versions) :
        ApplyResource("delete_resource_definition", id, None,
                      delete_resource_definition(resource_definitions,
                                                 resource_definition_versions,
                                                 uuid_count, id))

(***************************************************************************)
(* Subscription definitions.                                               *)
(* A Source or Target string is the sequence of its tokens, the ":" and    *)
(* "/" separators included.                                                *)
(***************************************************************************)
\* tokens that are not a non-empty run of [a-zA-Z0-9-]
NotAlnumDash == {":", "/", "", "my_function", "not a target"}

\* tokens that are not a non-empty run of [a-zA-Z0-9-_]
NotAlnumDashUnderscore == {":", "/", "", "not a target"}

\* tokens of the shape [0-9]{12}
TwelveDigits == {"123456789012"}

\* ^arn:aws:iot:[a-zA-Z0-9-]+:[0-9]{12}:thing/[a-zA-Z0-9-]+$
MatchesThingArn(s) ==
    /\ Len(s) = 13
    /\ SubSeq(s, 1, 6) = <<"arn", ":", "aws", ":", "iot", ":">>
    /\ s[7] \notin NotAlnumDash
    /\ s[8] = ":"
    /\ s[9] \in TwelveDigits
    /\ SubSeq(s, 10, 12) = <<":", "thing", "/">>
    /\ s[13] \notin NotAlnumDash

\* ^arn:aws:lambda:[a-zA-Z0-9-]+:[0-9]{12}:function:[a-zA-Z0-9-_]+:[a-zA-Z0-9-_]+$
MatchesLambdaArn(s) ==
    /\ Len(s) = 15
    /\ SubSeq(s, 1, 6) = <<"arn", ":", "aws", ":", "lambda", ":">>
    /\ s[7] \notin NotAlnumDash
    /\ s[8] = ":"
    /\ s[9] \in TwelveDigits
    /\ SubSeq(s, 10, 12) = <<":", "function", ":">>
    /\ s[13] \notin NotAlnumDashUnderscore
    /\ s[14] = ":"
    /\ s[15] \notin NotAlnumDashUnderscore

_is_valid_subscription_target_or_source(target_or_source) ==
    \/ target_or_source \in {<<"cloud">>, <<"GGShadowService">>}
    \/ MatchesThingArn(target_or_source)
    \/ MatchesLambdaArn(target_or_source)

\* the messages one subscription adds, its source first
SubscriptionErrors(subscription) ==
    (IF ~_is_valid_subscription_target_or_source(subscription.Source)
     THEN <<[what |-> "source", Id |-> subscription.Id, value |-> subscription.Source]>>
     ELSE <<>>)
    \o
    (IF ~_is_valid_subscription_target_or_source(subscription.Target)
     THEN <<[what |-> "target", Id |-> subscription.Id, value |-> subscription.Target]>>
     ELSE <<>>)

RECURSIVE CollectSubscriptionErrors(_)
CollectSubscriptionErrors(subscriptions) ==
    IF subscriptions = <<>>
    THEN <<>>
    ELSE SubscriptionErrors(Head(subscriptions))
             \o CollectSubscriptionErrors(Tail(subscriptions))

_validate_subscription_target_or_source_first_only(subscriptions) ==
    IF CollectSubscriptionErrors(subscriptions) = <<>>
    THEN <<>>
    ELSE <<Head(CollectSubscriptionErrors(subscriptions))>>

\* _validate_subscription_target_or_source: the messages of the one error it
\* raises, <<>> when it raises none (both kinds of message go to one list)
_validate_subscription_target_or_source(subscriptions) ==
    CollectSubscriptionErrors(subscriptions)

\* create_subscription_definition_version: validates, then looks the parent
\* up; it does not touch the parent's latest_version
create_subscription_definition_version(defs, vers, n, subscription_definition_id, subscriptions) ==
    IF _validate_subscription_target_or_source(subscriptions) # <<>>
    THEN Outcome(defs, vers, n, "GreengrassClientError",
                 _validate_subscription_target_or_source(subscriptions))
    ELSE IF ~OD_Has(defs, subscription_definition_id)
    THEN Outcome(defs, vers, n, "IdNotFoundException", None)
    ELSE LET sub_def_ver == FakeSubscriptionDefinitionVersion(region_name,
                                subscription_definition_id, subscriptions, uuid4(n + 1))
             sub_vers == OD_Set(OD_GetOrEmpty(vers, subscription_definition_id),
                                sub_def_ver.version, sub_def_ver)
         IN  Outcome(defs, OD_Set(vers, subscription_definition_id, sub_vers),
                     n + 1, "ok", sub_def_ver)

\* create_subscription_definition sets latest_version itself, from the
\* version that create_subscription_definition_version returns
create_subscription_definition(defs, vers, n, name, initial_version) ==
    LET subscriptions0 == DictGet(initial_version, "Subscriptions")
    IN  IF _validate_subscription_target_or_source(subscriptions0) # <<>>
        THEN Outcome(defs, vers, n, "GreengrassClientError",
                     _validate_subscription_target_or_source(subscriptions0))
        ELSE LET sub_def == FakeSubscriptionDefinition(region_name, name,
                                initial_version, uuid4(n + 1))
                 subscriptions == DictGetOr(sub_def.initial_version, "Subscriptions", <<>>)
                 o == create_subscription_definition_version(
                          OD_Set(defs, sub_def.id, sub_def), vers, n + 1,
                          sub_def.id, subscriptions)
             IN  IF o.res # "ok"
                 THEN o
                 ELSE Outcome(OD_Set(o.defs, sub_def.id,
                                     [OD_Get(o.defs, sub_def.id) EXCEPT
                                         !.latest_version = o.ret.version,
                                         !.latest_version_arn = o.ret.arn]),
                              o.vers, o.n, "ok", sub_def.id)

get_subscription_definition(defs, vers, n, subscription_definition_id) ==
    IF ~OD_Has(defs, subscription_definition_id)
    THEN Outcome(defs, vers, n, "IdNotFoundException", None)
    ELSE Outcome(defs, vers, n, "ok", OD_Get(defs, subscription_definition_id))

delete_subscription_definition(defs, vers, n, subscription_definition_id) ==
    IF ~OD_Has(defs, subscription_definition_id)
    THEN Outcome(defs, vers, n, "IdNotFoundException", None)
    ELSE IF ~OD_Has(vers, subscription_definition_id)
         THEN Outcome(OD_Del(defs, subscription_definition_id), vers, n, "KeyError", None)
         ELSE Outcome(OD_Del(defs, subscription_definition_id),
                      OD_Del(vers, subscription_definition_id), n, "ok", None)

THING_FOO ==
    <<"arn", ":", "aws", ":", "iot", ":", "us-east-1", ":", "123456789012", ":",
      "thing", "/", "foo">>

NOT_A_TARGET == <<"not a target">>

SubscriptionLists ==
    {<<[Id |-> "s1", Source |-> <<"cloud">>, Target |-> THING_FOO]>>,
     <<[Id |-> "s1", Source |-> THING_FOO, Target |-> <<"GGShadowService">>]>>,
     <<[Id |-> "s1", Source |-> <<"cloud">>, Target |-> NOT_A_TARGET]>>,
     <<[Id |-> "s1", Source |-> NOT_A_TARGET, Target |-> <<"cloud">>],
       [Id |-> "s2", Source |-> <<"cloud">>, Target |-> NOT_A_TARGET]>>}

SubscriptionInitialVersions ==
    {{<<"Subscriptions", <<[Id |-> "s1", Source |-> <<"cloud">>, Target |-> THING_FOO]>>>>},
     {<<"Subscriptions", <<[Id |-> "s1", Source |-> <<"cloud">>, Target |-> NOT_A_TARGET]>>>>}}

ApplySubscription(op, id, args, o) ==
    /\ subscription_definitions' = o.defs
    /\ subscription_definition_versions' = o.vers
    /\ uuid_count' = o.n
    /\ last' = Call(op, id, args, o)
    /\ UNCHANGED <<groupVars, coreVars, deviceVars, functionVars,
                   resourceVars, glueVars, regionVars>>

CreateSubscriptionDefinition ==
    \E name \in Names, initial_version \in SubscriptionInitialVersions :
        /\ uuid_count + 2 <= MaxUuid
        /\ ApplySubscription("create_subscription_definition", uuid4(uuid_count + 1),
                             initial_version,
                             create_subscription_definition(
                                 subscription_definitions,
                                 subscription_definition_versions,
                                 uuid_count, name, initial_version))

CreateSubscriptionDefinitionVersion ==
    \E id \in IdInputs(subscription_definitions, subscription_definition_versions), subscriptions \in SubscriptionLists :
        /\ uuid_count + 1 <= MaxUuid
        /\ ApplySubscription("create_subscription_definition_version", id,
                             subscriptions,
                             create_subscription_definition_version(
                                 subscription_definitions,
                                 subscription_definition_versions,
                                 uuid_count, id, subscriptions))

GetSubscriptionDefinition ==
    \E id \in IdInputs(subscription_definitions, subscription_definition_versions) :
        ApplySubscription("get_subscription_definition", id, None,
                          get_subscription_definition(
                              subscription_definitions,
                              subscription_definition_versions, uuid_count, id))

DeleteSubscriptionDefinition ==
    \E id \in IdInputs(subscription_definitions, subscription_definition_versions) :
        ApplySubscription("delete_subscription_definition", id, None,
                          delete_subscription_definition(
                              subscription_definitions,
                              subscription_definition_versions, uuid_count, id))


(***************************************************************************)
(* Groups and the cross-reference validation.                              *)
(***************************************************************************)
\* the version store that _is_valid_def_ver_arn selects for a kind
VersionsOfKind(kind) ==
    CASE kind = "cores" -> core_definition_versions
      [] kind = "devices" -> device_definition_versions
      [] kind = "functions" -> function_definition_versions
      [] kind = "resources" -> resource_definition_versions
      [] kind = "subscriptions" -> subscription_definition_versions

\* re.match of r"^arn:aws:greengrass:[a-zA-Z0-9-]+:[0-9]{12}:greengrass/definition/"
\*             + kind + r"/[a-z0-9-]{36}/versions/[a-z0-9-]{36}$"
MatchesArnRegex(arn, kind) ==
    /\ Len(arn) = 6
    /\ Len(arn[1]) = 6
    /\ SubSeq(arn[1], 1, 3) = <<"arn", "aws", "greengrass">>
    /\ arn[1][4] \notin NotAlnumDash
    /\ arn[1][5] \in TwelveDigits
    /\ arn[1][6] = "greengrass"
    /\ arn[2] = "definition"
    /\ arn[3] = kind
    /\ IsUuidShaped(arn[4])
    /\ arn[5] = "versions"
    /\ IsUuidShaped(arn[6])

\* _is_valid_def_ver_arn without the comparison of the recorded ARN
_is_valid_def_ver_arn_no_arn_check(definition_version_arn, kind) ==
    IF definition_version_arn = None
    THEN TRUE
    ELSE LET versions == VersionsOfKind(kind)
             definition_id == definition_version_arn[Len(definition_version_arn) - 2]
             definition_version_id == definition_version_arn[Len(definition_version_arn)]
         IN  /\ MatchesArnRegex(definition_version_arn, kind)
             /\ OD_Has(versions, definition_id)
             /\ OD_Has(OD_Get(versions, definition_id), definition_version_id)

\* the nested function _is_valid_def_ver_arn
_is_valid_def_ver_arn(definition_version_arn, kind) ==
    IF definition_version_arn = None
    THEN TRUE
    ELSE LET versions == VersionsOfKind(kind)
             definition_id == definition_version_arn[Len(definition_version_arn) - 2]
             definition_version_id == definition_version_arn[Len(definition_version_arn)]
         IN  /\ MatchesArnRegex(definition_version_arn, kind)
             /\ OD_Has(versions, definition_id)
             /\ OD_Has(OD_Get(versions, definition_id), definition_version_id)
             /\ OD_Get(OD_Get(versions, definition_id), definition_version_id).arn
                    = definition_version_arn

\* _validate_group_version_definitions raising on the first invalid reference
_validate_group_version_definitions_first_only(refs) ==
    IF ~_is_valid_def_ver_arn(refs.cores, "cores")
    THEN <<"Cores definition reference does not exist">>
    ELSE IF ~_is_valid_def_ver_arn(refs.functions, "functions")
    THEN <<"Lambda definition reference does not exist">>
    ELSE IF ~_is_valid_def_ver_arn(refs.resources, "resources")
    THEN <<"Resource definition reference does not exist">>
    ELSE IF ~_is_valid_def_ver_arn(refs.devices, "devices")
    THEN <<"Devices definition reference does not exist">>
    ELSE IF ~_is_valid_def_ver_arn(refs.subscriptions, "subscriptions")
    THEN <<"Subscription definition reference does not exist">>
    ELSE <<>>

\* _validate_group_version_definitions: the messages of the one error it
\* raises, in the order of its five checks; <<>> when it raises none
_validate_group_version_definitions(refs) ==
    (IF ~_is_valid_def_ver_arn(refs.cores, "cores")
     THEN <<"Cores definition reference does not exist">> ELSE <<>>)
    \o (IF ~_is_valid_def_ver_arn(refs.functions, "functions")
        THEN <<"Lambda definition reference does not exist">> ELSE <<>>)
    \o (IF ~_is_valid_def_ver_arn(refs.resources, "resources")
        THEN <<"Resource definition reference does not exist">> ELSE <<>>)
    \o (IF ~_is_valid_def_ver_arn(refs.devices, "devices")
        THEN <<"Devices definition reference does not exist">> ELSE <<>>)
    \o (IF ~_is_valid_def_ver_arn(refs.subscriptions, "subscriptions")
        THEN <<"Subscription definition reference does not exist">> ELSE <<>>)

\* create_group_version without the call of _validate_group_version_definitions
create_group_version_unvalidated(defs, vers, n, group_id, refs) ==
    IF ~OD_Has(defs, group_id)
    THEN Outcome(defs, vers, n, "IdNotFoundException", None)
    ELSE LET group_ver == FakeGroupVersion(region_name, group_id, refs, uuid4(n + 1))
             group_vers == OD_Set(OD_GetOrEmpty(vers, group_ver.group_id),
                                  group_ver.version, group_ver)
         IN  Outcome(OD_Set(defs, group_id,
                            [OD_Get(defs, group_id) EXCEPT
                                !.latest_version_arn = group_ver.arn,
                                !.latest_version = group_ver.version]),
                     OD_Set(vers, group_ver.group_id, group_vers),
                     n + 1, "ok", group_ver)

create_group_version(defs, vers, n, group_id, refs) ==
    IF ~OD_Has(defs, group_id)
    THEN Outcome(defs, vers, n, "IdNotFoundException", None)
    ELSE IF _validate_group_version_definitions(refs) # <<>>
    THEN Outcome(defs, vers, n, "GreengrassClientError",
                 _validate_group_version_definitions(refs))
    ELSE LET group_ver == FakeGroupVersion(region_name, group_id, refs, uuid4(n + 1))
             group_vers == OD_Set(OD_GetOrEmpty(vers, group_ver.group_id),
                                  group_ver.version, group_ver)
         IN  Outcome(OD_Set(defs, group_id,
                            [OD_Get(defs, group_id) EXCEPT
                                !.latest_version_arn = group_ver.arn,
                                !.latest_version = group_ver.version]),
                     OD_Set(vers, group_ver.group_id, group_vers),
                     n + 1, "ok", group_ver)

\* definitions.get(<key>) for the five keys of initial_version
RefsOfInitialVersion(initial_version) ==
    [cores |-> DictGetOr(initial_version, "CoreDefinitionVersionArn", None),
     devices |-> DictGetOr(initial_version, "DeviceDefinitionVersionArn", None),
     functions |-> DictGetOr(initial_version, "FunctionDefinitionVersionArn", None),
     resources |-> DictGetOr(initial_version, "ResourceDefinitionVersionArn", None),
     subscriptions |-> DictGetOr(initial_version, "SubscriptionDefinitionVersionArn", None)]

\* create_group: the group is registered before its first version is
\* validated and created
create_group(defs, vers, n, name, initial_version) ==
    LET group == FakeGroup(region_name, name, uuid4(n + 1))
        o == create_group_version(OD_Set(defs, group.id, group), vers, n + 1,
                                  group.id, RefsOfInitialVersion(initial_version))
    IN  Outcome(o.defs, o.vers, o.n, o.res, IF o.res = "ok" THEN group.id ELSE o.ret)

get_group(defs, vers, n, group_id) ==
    IF ~OD_Has(defs, group_id)
    THEN Outcome(defs, vers, n, "IdNotFoundException", None)
    ELSE Outcome(defs, vers, n, "ok", OD_Get(defs, group_id))

delete_group(defs, vers, n, group_id) ==
    IF ~OD_Has(defs, group_id)
    THEN Outcome(defs, vers, n, "IdNotFoundException", None)
    ELSE IF ~OD_Has(vers, group_id)
         THEN Outcome(OD_Del(defs, group_id), vers, n, "KeyError", None)
         ELSE Outcome(OD_Del(defs, group_id), OD_Del(vers, group_id), n, "ok", None)

\* the ARNs recorded on the stored versions of a kind
StoredVersionArns(kind) ==
    LET versions == VersionsOfKind(kind)
    IN  {versions[i][2][j][2].arn : <<i, j>> \in
            {<<i, j>> \in (DOMAIN versions) \X (1..MaxUuid + 1) :
                j \in DOMAIN versions[i][2]}}

\* an ARN of the right shape whose definition id was never handed out
UnknownDefinitionRef(kind) ==
    DefinitionVersionArn(region_name, kind, UnknownUuid, UnknownUuid)

\* references a caller may pass for a kind
RefInputs(kind) == {None, UnknownDefinitionRef(kind)} \cup StoredVersionArns(kind)

\* the references of a call: none, one non-null reference, or five
\* references to definitions that do not exist
NoRefs ==
    [cores |-> None, devices |-> None, functions |-> None, resources |-> None,
     subscriptions |-> None]

RefsInputs ==
    {NoRefs, [k \in Kinds |-> UnknownDefinitionRef(k)]}
        \cup {[NoRefs EXCEPT ![k] = a] : <<k, a>> \in
                  {<<k, a>> \in Kinds \X UNION {RefInputs(kk) : kk \in Kinds} :
                      a \in RefInputs(k)}}

\* the initial_version payload that carries the non-null references
InitialVersionOfRefs(refs) ==
    {p \in {<<"CoreDefinitionVersionArn", refs.cores>>,
            <<"DeviceDefinitionVersionArn", refs.devices>>,
            <<"FunctionDefinitionVersionArn", refs.functions>>,
            <<"ResourceDefinitionVersionArn", refs.resources>>,
            <<"SubscriptionDefinitionVersionArn", refs.subscriptions>>} :
        p[2] # None}

ApplyGroup(op, id, args, o) ==
    /\ groups' = o.defs
    /\ group_versions' = o.vers
    /\ uuid_count' = o.n
    /\ last' = Call(op, id, args, o)
    /\ UNCHANGED <<coreVars, deviceVars, functionVars, resourceVars,
                   subscriptionVars, glueVars, regionVars>>

CreateGroup ==
    \E name \in Names, refs \in RefsInputs :
        LET o == create_group(groups, group_versions, uuid_count, name,
                              InitialVersionOfRefs(refs))
        IN  /\ o.n <= MaxUuid
            /\ ApplyGroup("create_group", uuid4(uuid_count + 1), None, o)

CreateGroupVersion ==
    \E id \in IdInputs(groups, group_versions), refs \in RefsInputs :
        LET o == create_group_version(groups, group_versions, uuid_count, id, refs)
        IN  /\ o.n <= MaxUuid
            /\ ApplyGroup("create_group_version", id, None, o)

GetGroup ==
    \E id \in IdInputs(groups, group_versions) :
        ApplyGroup("get_group", id, None,
                   get_group(groups, group_versions, uuid_count, id))

DeleteGroup ==
    \E id \in IdInputs(groups, group_versions) :
        ApplyGroup("delete_group", id, None,
                   delete_group(groups, group_versions, uuid_count, id))

(***************************************************************************)
(* Listings and version look-ups of the greengrass backend.                *)
(***************************************************************************)
\* od.values()
OD_Values(od) == [i \in DOMAIN od |-> od[i][2]]

\* version ids a caller may pass: every stored version id of the kind and
\* one that was never handed out
VersionIdInputs(vers) ==
    UNION {OD_Keys(vers[i][2]) : i \in DOMAIN vers} \cup {UnknownUuid}

list_core_definitions(defs, vers, n) == Outcome(defs, vers, n, "ok", OD_Values(defs))

\* the parent is looked up in the definition map, the version in the version
\* map: self.core_definition_versions[id] raises KeyError for a parent
\* without a version collection
get_core_definition_version(defs, vers, n, core_definition_id, core_definition_version_id) ==
    IF ~OD_Has(defs, core_definition_id)
    THEN Outcome(defs, vers, n, "IdNotFoundException", None)
    ELSE IF ~OD_Has(vers, core_definition_id)
    THEN Outcome(defs, vers, n, "KeyError", None)
    ELSE IF ~OD_Has(OD_Get(vers, core_definition_id), core_definition_version_id)
    THEN Outcome(defs, vers, n, "VersionNotFoundException", None)
    ELSE Outcome(defs, vers, n, "ok", OD_Get(OD_Get(vers, core_definition_id), core_definition_version_id))

ListCoreDefinitions ==
    ApplyCore("list_core_definitions", None, None,
             list_core_definitions(core_definitions, core_definition_versions, uuid_count))

GetCoreDefinitionVersion ==
    \E id \in IdInputs(core_definitions, core_definition_versions),
       version_id \in VersionIdInputs(core_definition_versions) :
        ApplyCore("get_core_definition_version", <<id, version_id>>, None,
                 get_core_definition_version(core_definitions, core_definition_versions,
                                            uuid_count, id, version_id))

list_device_definitions(defs, vers, n) == Outcome(defs, vers, n, "ok", OD_Values(defs))

\* the parent is looked up in the definition map, the version in the version
\* map: self.device_definition_versions[id] raises KeyError for a parent
\* without a version collection
get_device_definition_version(defs, vers, n, device_definition_id, device_definition_version_id) ==
    IF ~OD_Has(defs, device_definition_id)
    THEN Outcome(defs, vers, n, "IdNotFoundException", None)
    ELSE IF ~OD_Has(vers, device_definition_id)
    THEN Outcome(defs, vers, n, "KeyError", None)
    ELSE IF ~OD_Has(OD_Get(vers, device_definition_id), device_definition_version_id)
    THEN Outcome(defs, vers, n, "VersionNotFoundException", None)
    ELSE Outcome(defs, vers, n, "ok", OD_Get(OD_Get(vers, device_definition_id), device_definition_version_id))

ListDeviceDefinitions ==
    ApplyDevice("list_device_definitions", None, None,
             list_device_definitions(device_definitions, device_definition_versions, uuid_count))

GetDeviceDefinitionVersion ==
    \E id \in IdInputs(device_definitions, device_definition_versions),
       version_id \in VersionIdInputs(device_definition_versions) :
        ApplyDevice("get_device_definition_version", <<id, version_id>>, None,
                 get_device_definition_version(device_definitions, device_definition_versions,
                                            uuid_count, id, version_id))

list_function_definitions(defs, vers, n) == Outcome(defs, vers, n, "ok", OD_Values(defs))

\* both look-ups are in the version map; a missing version raises
\* IdNotFoundException as well
get_function_definition_version(defs, vers, n, function_definition_id, function_definition_version_id) ==
    IF ~OD_Has(vers, function_definition_id)
    THEN Outcome(defs, vers, n, "IdNotFoundException", None)
    ELSE IF ~OD_Has(OD_Get(vers, function_definition_id), function_definition_version_id)
    THEN Outcome(defs, vers, n, "IdNotFoundException", None)
    ELSE Outcome(defs, vers, n, "ok", OD_Get(OD_Get(vers, function_definition_id), function_definition_version_id))

ListFunctionDefinitions ==
    ApplyFunction("list_function_definitions", None, None,
             list_function_definitions(function_definitions, function_definition_versions, uuid_count))

GetFunctionDefinitionVersion ==
    \E id \in IdInputs(function_definitions, function_definition_versions),
       version_id \in VersionIdInputs(function_definition_versions) :
        ApplyFunction("get_function_definition_version", <<id, version_id>>, None,
                 get_function_definition_version(function_definitions, function_definition_versions,
                                            uuid_count, id, version_id))

\* list_resource_definitions returns self.resource_definitions, the mapping
\* itself, where the other kinds return its values()
list_resource_definitions(defs, vers, n) == Outcome(defs, vers, n, "ok", defs)

\* both look-ups are in the version map
get_resource_definition_version(defs, vers, n, resource_definition_id, resource_definition_version_id) ==
    IF ~OD_Has(vers, resource_definition_id)
    THEN Outcome(defs, vers, n, "IdNotFoundException", None)
    ELSE IF ~OD_Has(OD_Get(vers, resource_definition_id), resource_definition_version_id)
    THEN Outcome(defs, vers, n, "VersionNotFoundException", None)
    ELSE Outcome(defs, vers, n, "ok", OD_Get(OD_Get(vers, resource_definition_id), resource_definition_version_id))

ListResourceDefinitions ==
    ApplyResource("list_resource_definitions", None, None,
             list_resource_definitions(resource_definitions, resource_definition_versions, uuid_count))

GetResourceDefinitionVersion ==
    \E id \in IdInputs(resource_definitions, resource_definition_versions),
       version_id \in VersionIdInputs(resource_definition_versions) :
        ApplyResource("get_resource_definition_version", <<id, version_id>>, None,
                 get_resource_definition_version(resource_definitions, resource_definition_versions,
                                            uuid_count, id, version_id))

list_subscription_definitions(defs, vers, n) == Outcome(defs, vers, n, "ok", OD_Values(defs))

\* the parent is looked up in the definition map, the version in the version
\* map: self.subscription_definition_versions[id] raises KeyError for a parent
\* without a version collection
get_subscription_definition_version(defs, vers, n, subscription_definition_id, subscription_definition_version_id) ==
    IF ~OD_Has(defs, subscription_definition_id)
    THEN Outcome(defs, vers, n, "IdNotFoundException", None)
    ELSE IF ~OD_Has(vers, subscription_definition_id)
    THEN Outcome(defs, vers, n, "KeyError", None)
    ELSE IF ~OD_Has(OD_Get(vers, subscription_definition_id), subscription_definition_version_id)
    THEN Outcome(defs, vers, n, "VersionNotFoundException", None)
    ELSE Outcome(defs, vers, n, "ok", OD_Get(OD_Get(vers, subscription_definition_id), subscription_definition_version_id))

ListSubscriptionDefinitions ==
    ApplySubscription("list_subscription_definitions", None, None,
             list_subscription_definitions(subscription_definitions, subscription_definition_versions, uuid_count))

GetSubscriptionDefinitionVersion ==
    \E id \in IdInputs(subscription_definitions, subscription_definition_versions),
       version_id \in VersionIdInputs(subscription_definition_versions) :
        ApplySubscription("get_subscription_definition_version", <<id, version_id>>, None,
                 get_subscription_definition_version(subscription_definitions, subscription_definition_versions,
                                            uuid_count, id, version_id))

list_groups(defs, vers, n) == Outcome(defs, vers, n, "ok", OD_Values(defs))

\* both look-ups are in the version map
get_group_version(defs, vers, n, group_id, group_version_id) ==
    IF ~OD_Has(vers, group_id)
    THEN Outcome(defs, vers, n, "IdNotFoundException", None)
    ELSE IF ~OD_Has(OD_Get(vers, group_id), group_version_id)
    THEN Outcome(defs, vers, n, "VersionNotFoundException", None)
    ELSE Outcome(defs, vers, n, "ok", OD_Get(OD_Get(vers, group_id), group_version_id))

ListGroups ==
    ApplyGroup("list_groups", None, None, list_groups(groups, group_versions, uuid_count))

GetGroupVersion ==
    \E id \in IdInputs(groups, group_versions),
       version_id \in VersionIdInputs(group_versions) :
        ApplyGroup("get_group_version", <<id, version_id>>, None,
                   get_group_version(groups, group_versions, uuid_count, id,
                                     version_id))

(***************************************************************************)
(* GlueBackend.  A method is an operator on the backend's four stores      *)
(* g = [databases, crawlers, jobs, tagger]; its outcome is the stores as   *)
(* the method leaves them, the exception it raised ("ok" when it returned) *)
(* and what it returned.                                                   *)
(***************************************************************************)
GlueOutcome(g, res, ret) == [g |-> g, res |-> res, ret |-> ret]

\* str(values) of a list of strings: "['a', 'b']", as a sequence of tokens
RECURSIVE ReprItems(_)
ReprItems(values) ==
    IF values = <<>> THEN <<>>
    ELSE IF Len(values) = 1 THEN <<"'", values[1], "'">>
    ELSE <<"'", values[1], "'", ", ">> \o ReprItems(Tail(values))

str(values) == <<"[">> \o ReprItems(values) \o <<"]">>

\* d.update(e) on payload dicts
DictUpdate(d, e) == {p \in d : ~DictHas(e, p[1])} \cup e

GlueArn(kind, name) == <<<<"arn", "aws", "glue", "us-east-1", ACCOUNT_ID, kind>>, name>>

FakeDatabase(database_name, database_input) ==
    [name |-> database_name, input |-> database_input, tables |-> OD_Empty]

\* FakeTable.__init__ ends with self.update(table_input)
FakeTable(database_name, table_name, table_input) ==
    [database_name |-> database_name, name |-> table_name,
     partitions |-> OD_Empty, versions |-> <<table_input>>]

FakePartition(database_name, table_name, partiton_input) ==
    [database_name |-> database_name, table_name |-> table_name,
     partition_input |-> partiton_input,
     values |-> DictGetOr(partiton_input, "Values", <<>>)]

\* the constructor arguments that no method reads are the record `fields`
FakeCrawler(name, fields) ==
    [name |-> name, fields |-> fields, state |-> "READY", version |-> 1,
     crawl_elapsed_time |-> 0, last_crawl_info |-> None,
     arn |-> GlueArn("crawler", name)]

FakeJob(name, fields) ==
    [name |-> name, fields |-> fields, state |-> "READY",
     arn |-> GlueArn("job", name)]

\* TaggingService.tag_resource: the given pairs are written over the pairs
\* recorded for the ARN
TaggingService_tag_resource(tags_by_arn, arn, tags) ==
    OD_Set(tags_by_arn, arn,
           DictUpdate(IF OD_Has(tags_by_arn, arn) THEN OD_Get(tags_by_arn, arn) ELSE {},
                      tags))

\* tag_resource that forgets the pairs recorded before
tag_resource_replacing(g, resource_arn, tags) ==
    [g EXCEPT !.tagger = OD_Set(@, resource_arn, tags)]

\* GlueBackend.tag_resource; `tags or {}`: a caller without tags passes {}
tag_resource(g, resource_arn, tags) ==
    [g EXCEPT !.tagger = TaggingService_tag_resource(@, resource_arn, tags)]

(***************************************************************************)
(* Databases and tables.                                                   *)
(***************************************************************************)
create_database(g, database_name, database_input) ==
    IF OD_Has(g.databases, database_name)
    THEN GlueOutcome(g, "DatabaseAlreadyExistsException", None)
    ELSE LET database == FakeDatabase(database_name, database_input)
         IN  GlueOutcome([g EXCEPT !.databases = OD_Set(@, database_name, database)],
                         "ok", database)

get_database(g, database_name) ==
    IF OD_Has(g.databases, database_name)
    THEN GlueOutcome(g, "ok", OD_Get(g.databases, database_name))
    ELSE GlueOutcome(g, "DatabaseNotFoundException", None)

delete_database(g, database_name) ==
    IF ~OD_Has(g.databases, database_name)
    THEN GlueOutcome(g, "DatabaseNotFoundException", None)
    ELSE GlueOutcome([g EXCEPT !.databases = OD_Del(@, database_name)], "ok", None)

\* database.tables = tables, on the database object held by the store
SetTables(g, database_name, tables) ==
    [g EXCEPT !.databases =
        OD_Set(@, database_name, [OD_Get(@, database_name) EXCEPT !.tables = tables])]

\* create_table without the look-up of the name
create_table_overwriting(g, database_name, table_name, table_input) ==
    LET d == get_database(g, database_name)
    IN  IF d.res # "ok" THEN d
        ELSE LET table == FakeTable(database_name, table_name, table_input)
             IN  GlueOutcome(SetTables(g, database_name,
                                       OD_Set(d.ret.tables, table_name, table)),
                             "ok", table)

create_table(g, database_name, table_name, table_input) ==
    LET d == get_database(g, database_name)
    IN  IF d.res # "ok" THEN d
        ELSE IF OD_Has(d.ret.tables, table_name)
        THEN GlueOutcome(g, "TableAlreadyExistsException", None)
        ELSE LET table == FakeTable(database_name, table_name, table_input)
             IN  GlueOutcome(SetTables(g, database_name,
                                       OD_Set(d.ret.tables, table_name, table)),
                             "ok", table)

get_table(g, database_name, table_name) ==
    LET d == get_database(g, database_name)
    IN  IF d.res # "ok" THEN d
        ELSE IF OD_Has(d.ret.tables, table_name)
        THEN GlueOutcome(g, "ok", OD_Get(d.ret.tables, table_name))
        ELSE GlueOutcome(g, "TableNotFoundException", None)

\* delete_table that returns {} also when the table is not stored
delete_table_silent(g, database_name, table_name) ==
    LET d == get_database(g, database_name)
    IN  IF d.res # "ok" THEN d
        ELSE GlueOutcome(SetTables(g, database_name, OD_Del(d.ret.tables, table_name)),
                         "ok", {})

delete_table(g, database_name, table_name) ==
    LET d == get_database(g, database_name)
    IN  IF d.res # "ok" THEN d
        ELSE IF OD_Has(d.ret.tables, table_name)
        THEN GlueOutcome(SetTables(g, database_name, OD_Del(d.ret.tables, table_name)),
                         "ok", {})
        ELSE GlueOutcome(g, "TableNotFoundException", None)

(***************************************************************************)
(* The methods of FakeTable.  A caller reaches them through get_table; the *)
(* table object they change is the one held by the database.               *)
(***************************************************************************)
\* table = get_table(database_name, table_name); table.<method>(...), where
\* m is the outcome of the method on that table: the table as the method
\* leaves it, the exception and the return value
OnTable(g, database_name, table_name, m) ==
    LET t == get_table(g, database_name, table_name)
    IN  IF t.res # "ok" THEN t
        ELSE LET tables == OD_Get(g.databases, database_name).tables
             IN  GlueOutcome(SetTables(g, database_name,
                                       OD_Set(tables, table_name, m.table)),
                             m.res, m.ret)

\* the table a FakeTable method is called on
TableOf(g, database_name, table_name) == get_table(g, database_name, table_name).ret

TableOutcome(table, res, ret) == [table |-> table, res |-> res, ret |-> ret]

\* an update that writes the input over the snapshots
FakeTable_update_replacing(table, table_input) ==
    TableOutcome([table EXCEPT !.versions = <<table_input>>], "ok", None)

FakeTable_update(table, table_input) ==
    TableOutcome([table EXCEPT !.versions = Append(@, table_input)], "ok", None)

\* int(s) of a string s, a sequence of characters: an optional sign and
\* decimal digits; anything else raises ValueError
DigitChars == {"0", "1", "2", "3", "4", "5", "6", "7", "8", "9"}

DigitsOf(s) == IF s # <<>> /\ s[1] \in {"-", "+"} THEN Tail(s) ELSE s

IsIntLiteral(s) ==
    /\ DigitsOf(s) # <<>>
    /\ \A i \in DOMAIN DigitsOf(s) : DigitsOf(s)[i] \in DigitChars

RECURSIVE DecimalValue(_)
DecimalValue(digits) ==
    IF digits = <<>> THEN 0
    ELSE 10 * DecimalValue(SubSeq(digits, 1, Len(digits) - 1))
             + (CHOOSE d \in 0..9 : ToString(d) = digits[Len(digits)])

int(s) == IF s[1] = "-" THEN 0 - DecimalValue(DigitsOf(s)) ELSE DecimalValue(DigitsOf(s))

\* self.versions[ver] of a Python list: ver in -len..len-1, a negative ver
\* counts from the end; anything else raises IndexError
ListHasIndex(list, ver) == 0 - Len(list) <= ver /\ ver < Len(list)

ListItem(list, ver) == IF ver >= 0 THEN list[ver + 1] ELSE list[Len(list) + ver + 1]

\* ver is a string here ("1" goes to [0]); the ValueError of int() becomes
\* InvalidInputException, the IndexError VersionNotFoundException
FakeTable_get_version(table, ver) ==
    IF ~IsIntLiteral(ver)
    THEN TableOutcome(table, "InvalidInputException", None)
    ELSE IF ~ListHasIndex(table.versions, int(ver) - 1)
    THEN TableOutcome(table, "VersionNotFoundException", None)
    ELSE TableOutcome(table, "ok", ListItem(table.versions, int(ver) - 1))

\* create_partition without the look-up of the key
FakeTable_create_partition_overwriting(table, partiton_input) ==
    LET partition == FakePartition(table.database_name, table.name, partiton_input)
    IN  TableOutcome([table EXCEPT !.partitions =
                          OD_Set(@, str(partition.values), partition)], "ok", None)

FakeTable_create_partition(table, partiton_input) ==
    LET partition == FakePartition(table.database_name, table.name, partiton_input)
        key == str(partition.values)
    IN  IF OD_Has(table.partitions, key)
        THEN TableOutcome(table, "PartitionAlreadyExistsException", None)
        ELSE TableOutcome([table EXCEPT !.partitions = OD_Set(@, key, partition)],
                          "ok", None)

FakeTable_get_partition(table, values) ==
    IF OD_Has(table.partitions, str(values))
    THEN TableOutcome(table, "ok", OD_Get(table.partitions, str(values)))
    ELSE TableOutcome(table, "PartitionNotFoundException", None)

\* update_partition that does not remove the entry of the old key
FakeTable_update_partition_keeping_old(table, old_values, partiton_input) ==
    LET partition == FakePartition(table.database_name, table.name, partiton_input)
        key == str(partition.values)
    IN  IF ~DictHas(partiton_input, "Values")
        THEN TableOutcome(table, "KeyError", None)
        ELSE IF old_values = DictGet(partiton_input, "Values")
        THEN IF ~OD_Has(table.partitions, key)
             THEN TableOutcome(table, "PartitionNotFoundException", None)
             ELSE TableOutcome([table EXCEPT !.partitions = OD_Set(@, key, partition)],
                               "ok", None)
        ELSE IF ~OD_Has(table.partitions, str(old_values))
        THEN TableOutcome(table, "PartitionNotFoundException", None)
        ELSE IF OD_Has(table.partitions, key)
        THEN TableOutcome(table, "PartitionAlreadyExistsException", None)
        ELSE TableOutcome([table EXCEPT !.partitions = OD_Set(@, key, partition)],
                          "ok", None)

\* update_partition that removes the old entry and inserts the new one on
\* both paths
FakeTable_update_partition_reinserting(table, old_values, partiton_input) ==
    LET partition == FakePartition(table.database_name, table.name, partiton_input)
        key == str(partition.values)
        popped == OD_Del(table.partitions, str(old_values))
    IN  IF ~DictHas(partiton_input, "Values")
        THEN TableOutcome(table, "KeyError", None)
        ELSE IF ~OD_Has(table.partitions, str(old_values))
        THEN TableOutcome(table, "PartitionNotFoundException", None)
        ELSE IF OD_Has(popped, key)
        THEN TableOutcome([table EXCEPT !.partitions = popped],
                          "PartitionAlreadyExistsException", None)
        ELSE TableOutcome([table EXCEPT !.partitions = OD_Set(popped, key, partition)],
                          "ok", None)

\* partiton_input["Values"] is read after the FakePartition was built; with
\* a changed key the old entry is popped before the new key is looked up
FakeTable_update_partition(table, old_values, partiton_input) ==
    LET partition == FakePartition(table.database_name, table.name, partiton_input)
        key == str(partition.values)
        popped == OD_Del(table.partitions, str(old_values))
    IN  IF ~DictHas(partiton_input, "Values")
        THEN TableOutcome(table, "KeyError", None)
        ELSE IF old_values = DictGet(partiton_input, "Values")
        THEN IF ~OD_Has(table.partitions, key)
             THEN TableOutcome(table, "PartitionNotFoundException", None)
             ELSE TableOutcome([table EXCEPT !.partitions = OD_Set(@, key, partition)],
                               "ok", None)
        ELSE IF ~OD_Has(table.partitions, str(old_values))
        THEN TableOutcome(table, "PartitionNotFoundException", None)
        ELSE IF OD_Has(popped, key)
        THEN TableOutcome([table EXCEPT !.partitions = popped],
                          "PartitionAlreadyExistsException", None)
        ELSE TableOutcome([table EXCEPT !.partitions = OD_Set(popped, key, partition)],
                          "ok", None)

FakeTable_delete_partition(table, values) ==
    IF OD_Has(table.partitions, str(values))
    THEN TableOutcome([table EXCEPT !.partitions = OD_Del(@, str(values))], "ok", None)
    ELSE TableOutcome(table, "PartitionNotFoundException", None)

(***************************************************************************)
(* Crawlers and jobs.                                                      *)
(***************************************************************************)
\* create_crawler that constructs the crawler before it looks the name up
create_crawler_tagging_first(g, name, fields, tags) ==
    LET crawler == FakeCrawler(name, fields)
        g1 == tag_resource(g, crawler.arn, tags)
    IN  IF OD_Has(g.crawlers, name)
        THEN GlueOutcome(g1, "CrawlerAlreadyExistsException", None)
        ELSE GlueOutcome([g1 EXCEPT !.crawlers = OD_Set(@, name, crawler)], "ok", None)

\* the FakeCrawler constructor tags the new ARN before the crawler is stored
create_crawler(g, name, fields, tags) ==
    IF OD_Has(g.crawlers, name)
    THEN GlueOutcome(g, "CrawlerAlreadyExistsException", None)
    ELSE LET crawler == FakeCrawler(name, fields)
             g1 == tag_resource(g, crawler.arn, tags)
         IN  GlueOutcome([g1 EXCEPT !.crawlers = OD_Set(@, name, crawler)], "ok", None)

get_crawler(g, name) ==
    IF OD_Has(g.crawlers, name)
    THEN GlueOutcome(g, "ok", OD_Get(g.crawlers, name))
    ELSE GlueOutcome(g, "CrawlerNotFoundException", None)

start_crawler(g, name) ==
    LET c == get_crawler(g, name)
    IN  IF c.res # "ok" THEN c
        ELSE IF c.ret.state = "RUNNING"
        THEN GlueOutcome(g, "CrawlerRunningException", None)
        ELSE GlueOutcome([g EXCEPT !.crawlers =
                              OD_Set(@, name, [c.ret EXCEPT !.state = "RUNNING"])],
                         "ok", None)

\* stop_crawler without the check of the state
stop_crawler_unchecked(g, name) ==
    LET c == get_crawler(g, name)
    IN  IF c.res # "ok" THEN c
        ELSE GlueOutcome([g EXCEPT !.crawlers =
                              OD_Set(@, name, [c.ret EXCEPT !.state = "STOPPING"])],
                         "ok", None)

\* stop_crawler that leaves the crawler in a state STOPPED
stop_crawler_stopped(g, name) ==
    LET c == get_crawler(g, name)
    IN  IF c.res # "ok" THEN c
        ELSE IF c.ret.state # "RUNNING"
        THEN GlueOutcome(g, "CrawlerNotRunningException", None)
        ELSE GlueOutcome([g EXCEPT !.crawlers =
                              OD_Set(@, name, [c.ret EXCEPT !.state = "STOPPED"])],
                         "ok", None)

\* stop_crawler that puts the crawler back to READY
stop_crawler_ready(g, name) ==
    LET c == get_crawler(g, name)
    IN  IF c.res # "ok" THEN c
        ELSE IF c.ret.state # "RUNNING"
        THEN GlueOutcome(g, "CrawlerNotRunningException", None)
        ELSE GlueOutcome([g EXCEPT !.crawlers =
                              OD_Set(@, name, [c.ret EXCEPT !.state = "READY"])],
                         "ok", None)

stop_crawler(g, name) ==
    LET c == get_crawler(g, name)
    IN  IF c.res # "ok" THEN c
        ELSE IF c.ret.state # "RUNNING"
        THEN GlueOutcome(g, "CrawlerNotRunningException", None)
        ELSE GlueOutcome([g EXCEPT !.crawlers =
                              OD_Set(@, name, [c.ret EXCEPT !.state = "STOPPING"])],
                         "ok", None)

\* delete_crawler that forgets the tags of the crawler
delete_crawler_untagging(g, name) ==
    IF OD_Has(g.crawlers, name)
    THEN GlueOutcome([g EXCEPT !.crawlers = OD_Del(@, name),
                               !.tagger = OD_Del(@, GlueArn("crawler", name))],
                     "ok", None)
    ELSE GlueOutcome(g, "CrawlerNotFoundException", None)

delete_crawler(g, name) ==
    IF OD_Has(g.crawlers, name)
    THEN GlueOutcome([g EXCEPT !.crawlers = OD_Del(@, name)], "ok", None)
    ELSE GlueOutcome(g, "CrawlerNotFoundException", None)

\* self.jobs[name] = FakeJob(...): no look-up of the name comes first
\* create_job that drops the tags recorded for the ARN before it tags
create_job_retagging(g, name, fields, tags) ==
    LET job == FakeJob(name, fields)
        g1 == tag_resource([g EXCEPT !.tagger = OD_Del(@, job.arn)], job.arn, tags)
    IN  GlueOutcome([g1 EXCEPT !.jobs = OD_Set(@, name, job)], "ok", name)

create_job(g, name, fields, tags) ==
    LET job == FakeJob(name, fields)
        g1 == tag_resource(g, job.arn, tags)
    IN  GlueOutcome([g1 EXCEPT !.jobs = OD_Set(@, name, job)], "ok", name)

get_job(g, name) ==
    IF OD_Has(g.jobs, name)
    THEN GlueOutcome(g, "ok", OD_Get(g.jobs, name))
    ELSE GlueOutcome(g, "JobNotFoundException", None)

\* start_job_run without the check of the state
start_job_run_unchecked(g, name) ==
    LET j == get_job(g, name)
    IN  IF j.res # "ok" THEN j
        ELSE GlueOutcome([g EXCEPT !.jobs =
                              OD_Set(@, name, [j.ret EXCEPT !.state = "RUNNING"])],
                         "ok", "01")

\* the run id is the default job_run_id of FakeJobRun
\* start_job_run of a job in state RUNNING that puts it back to READY
start_job_run_resetting(g, name) ==
    LET j == get_job(g, name)
    IN  IF j.res # "ok" THEN j
        ELSE IF j.ret.state = "RUNNING"
        THEN GlueOutcome([g EXCEPT !.jobs =
                              OD_Set(@, name, [j.ret EXCEPT !.state = "READY"])],
                         "ConcurrentRunsExceededException", None)
        ELSE GlueOutcome([g EXCEPT !.jobs =
                              OD_Set(@, name, [j.ret EXCEPT !.state = "RUNNING"])],
                         "ok", "01")

start_job_run(g, name) ==
    LET j == get_job(g, name)
    IN  IF j.res # "ok" THEN j
        ELSE IF j.ret.state = "RUNNING"
        THEN GlueOutcome(g, "ConcurrentRunsExceededException", None)
        ELSE GlueOutcome([g EXCEPT !.jobs =
                              OD_Set(@, name, [j.ret EXCEPT !.state = "RUNNING"])],
                         "ok", "01")

(***************************************************************************)
(* Listings.                                                               *)
(***************************************************************************)
\* [self.databases[key] for key in self.databases] if self.databases else []
get_databases(g) ==
    GlueOutcome(g, "ok", IF g.databases # OD_Empty THEN OD_Values(g.databases) ELSE <<>>)

get_tables(g, database_name) ==
    LET d == get_database(g, database_name)
    IN  IF d.res # "ok" THEN d ELSE GlueOutcome(g, "ok", OD_Values(d.ret.tables))

get_crawlers(g) ==
    GlueOutcome(g, "ok", IF g.crawlers # OD_Empty THEN OD_Values(g.crawlers) ELSE <<>>)

\* list_crawlers that lists the newest crawler first
list_crawlers_reversed(g) ==
    GlueOutcome(g, "ok", [i \in 1..Len(g.crawlers) |->
                              g.crawlers[Len(g.crawlers) + 1 - i][2]])

\* the listing that the paginate decorator is given
list_crawlers(g) == GlueOutcome(g, "ok", OD_Values(g.crawlers))

list_jobs(g) == GlueOutcome(g, "ok", OD_Values(g.jobs))

(***************************************************************************)
(* The glue calls as actions.                                              *)
(***************************************************************************)
\* the four stores of the backend in the current state
Glue == [databases |-> databases, crawlers |-> crawlers, jobs |-> jobs,
         tagger |-> tagger]

DatabaseNames == {"db1", "db2"}

DatabaseInputs == {{}, {<<"Description", "d">>}}

TableNames == {"t1"}

TableInputs == {{<<"Name", "t1">>}, {<<"Name", "t1">>, <<"Owner", "o">>}}

PartitionValues == {<<"a">>, <<"b">>, <<"a", "b">>}

\* partition inputs: with and without "Values", with and without more fields
PartitionInputs ==
    {{<<"Values", v>>} : v \in PartitionValues}
        \cup {{<<"Values", <<"a">>>>, <<"Parameters", "p">>}, {}}

CrawlerNames == {"c1"}

JobNames == {"j1"}

\* role and the other constructor arguments
FieldInputs == {[role |-> "r1"], [role |-> "r2"]}

TagInputs == {{}, {<<"k", "v1">>}}

\* the callers that may run create_table side by side
CallerIds == {"caller1", "caller2"}

\* no caller has begun
NoCallers ==
    [c \in CallerIds |-> [at |-> "idle", database_name |-> "", table_name |-> "",
                          table_input |-> {}, res |-> ""]]

\* cost is 1 for a call that may change a store and 0 for a get
ApplyGlue(op, id, args, o, cost) ==
    /\ glue_ops + cost <= MaxGlueOps
    /\ databases' = o.g.databases
    /\ crawlers' = o.g.crawlers
    /\ jobs' = o.g.jobs
    /\ tagger' = o.g.tagger
    /\ glue_ops' = glue_ops + cost
    /\ last' = Call(op, id, args, o)
    /\ UNCHANGED <<ggVars, callers, registries>>

CreateDatabase ==
    \E database_name \in DatabaseNames, database_input \in DatabaseInputs :
        ApplyGlue("create_database", database_name, database_input,
                  create_database(Glue, database_name, database_input), 1)

GetDatabase ==
    \E database_name \in DatabaseNames :
        ApplyGlue("get_database", database_name, None,
                  get_database(Glue, database_name), 0)

DeleteDatabase ==
    \E database_name \in DatabaseNames :
        ApplyGlue("delete_database", database_name, None,
                  delete_database(Glue, database_name), 1)

CreateTable ==
    \E database_name \in DatabaseNames, table_name \in TableNames,
       table_input \in TableInputs :
        ApplyGlue("create_table", <<database_name, table_name>>, table_input,
                  create_table(Glue, database_name, table_name, table_input), 1)

GetTable ==
    \E database_name \in DatabaseNames, table_name \in TableNames :
        ApplyGlue("get_table", <<database_name, table_name>>, None,
                  get_table(Glue, database_name, table_name), 0)

DeleteTable ==
    \E database_name \in DatabaseNames, table_name \in TableNames :
        ApplyGlue("delete_table", <<database_name, table_name>>, None,
                  delete_table(Glue, database_name, table_name), 1)

UpdateTable ==
    \E database_name \in DatabaseNames, table_name \in TableNames,
       table_input \in TableInputs :
        ApplyGlue("update_table", <<database_name, table_name>>, table_input,
                  OnTable(Glue, database_name, table_name,
                          FakeTable_update(TableOf(Glue, database_name, table_name), table_input)), 1)

CreatePartition ==
    \E database_name \in DatabaseNames, table_name \in TableNames,
       partiton_input \in PartitionInputs :
        ApplyGlue("create_partition",
                  <<database_name, table_name,
                    DictGetOr(partiton_input, "Values", <<>>)>>,
                  partiton_input,
                  OnTable(Glue, database_name, table_name,
                          FakeTable_create_partition(TableOf(Glue, database_name, table_name), partiton_input)),
                  1)

GetPartition ==
    \E database_name \in DatabaseNames, table_name \in TableNames,
       values \in PartitionValues \cup {<<>>} :
        ApplyGlue("get_partition", <<database_name, table_name, values>>, None,
                  OnTable(Glue, database_name, table_name,
                          FakeTable_get_partition(TableOf(Glue, database_name, table_name), values)), 0)

UpdatePartition ==
    \E database_name \in DatabaseNames, table_name \in TableNames,
       old_values \in PartitionValues \cup {<<>>}, partiton_input \in PartitionInputs :
        ApplyGlue("update_partition",
                  <<database_name, table_name,
                    DictGetOr(partiton_input, "Values", <<>>)>>,
                  <<old_values, partiton_input>>,
                  OnTable(Glue, database_name, table_name,
                          FakeTable_update_partition(TableOf(Glue, database_name, table_name), old_values,
                                                     partiton_input)),
                  1)

DeletePartition ==
    \E database_name \in DatabaseNames, table_name \in TableNames,
       values \in PartitionValues \cup {<<>>} :
        ApplyGlue("delete_partition", <<database_name, table_name, values>>, None,
                  OnTable(Glue, database_name, table_name,
                          FakeTable_delete_partition(TableOf(Glue, database_name, table_name), values)), 1)

CreateCrawler ==
    \E name \in CrawlerNames, fields \in FieldInputs, tags \in TagInputs :
        ApplyGlue("create_crawler", name, <<fields, tags>>,
                  create_crawler(Glue, name, fields, tags), 1)

GetCrawler ==
    \E name \in CrawlerNames :
        ApplyGlue("get_crawler", name, None, get_crawler(Glue, name), 0)

StartCrawler ==
    \E name \in CrawlerNames :
        ApplyGlue("start_crawler", name, None, start_crawler(Glue, name), 1)

StopCrawler ==
    \E name \in CrawlerNames :
        ApplyGlue("stop_crawler", name, None, stop_crawler(Glue, name), 1)

DeleteCrawler ==
    \E name \in CrawlerNames :
        ApplyGlue("delete_crawler", name, None, delete_crawler(Glue, name), 1)

CreateJob ==
    \E name \in JobNames, fields \in FieldInputs, tags \in TagInputs :
        ApplyGlue("create_job", name, <<fields, tags>>,
                  create_job(Glue, name, fields, tags), 1)

GetJob ==
    \E name \in JobNames :
        ApplyGlue("get_job", name, None, get_job(Glue, name), 0)

StartJobRun ==
    \E name \in JobNames :
        ApplyGlue("start_job_run", name, None, start_job_run(Glue, name), 1)

\* version tokens a caller may pass: "0", "1", "2", "3", "4", "-1", "10", "x", ""
VersionTokens ==
    {<<"0">>, <<"1">>, <<"2">>, <<"3">>, <<"4">>, <<"-", "1">>, <<"1", "0">>,
     <<"x">>, <<>>}

GetTableVersion ==
    \E database_name \in DatabaseNames, table_name \in TableNames, ver \in VersionTokens :
        ApplyGlue("get_table_version", <<database_name, table_name>>, ver,
                  OnTable(Glue, database_name, table_name,
                          FakeTable_get_version(TableOf(Glue, database_name, table_name),
                                                ver)), 0)

GetDatabases == ApplyGlue("get_databases", None, None, get_databases(Glue), 0)

GetTables ==
    \E database_name \in DatabaseNames :
        ApplyGlue("get_tables", database_name, None, get_tables(Glue, database_name), 0)

GetCrawlers == ApplyGlue("get_crawlers", None, None, get_crawlers(Glue), 0)

ListCrawlers == ApplyGlue("list_crawlers", None, None, list_crawlers(Glue), 0)

ListJobs == ApplyGlue("list_jobs", None, None, list_jobs(Glue), 0)

(***************************************************************************)
(* The greengrass backend as a state machine.                              *)
(***************************************************************************)
\* the stores of a backend as GreengrassBackend.__init__ leaves them: six
\* pairs of a parent map and a version map (groups, cores, devices,
\* functions, resources, subscriptions)
GreengrassBackend_init == [i \in 1..6 |-> <<OD_Empty, OD_Empty>>]

NoCall == [op |-> "none", id |-> "", args |-> None, res |-> "ok", ret |-> None]

InitGreengrass ==
    /\ groups = OD_Empty
    /\ group_versions = OD_Empty
    /\ core_definitions = OD_Empty
    /\ core_definition_versions = OD_Empty
    /\ device_definitions = OD_Empty
    /\ device_definition_versions = OD_Empty
    /\ function_definitions = OD_Empty
    /\ function_definition_versions = OD_Empty
    /\ resource_definitions = OD_Empty
    /\ resource_definition_versions = OD_Empty
    /\ subscription_definitions = OD_Empty
    /\ subscription_definition_versions = OD_Empty
    /\ uuid_count = 0
    /\ region_name = "us-east-1"
    /\ others = [r \in RegionNames \ {"us-east-1"} |-> GreengrassBackend_init]

InitGlue ==
    /\ databases = OD_Empty
    /\ crawlers = OD_Empty
    /\ jobs = OD_Empty
    /\ tagger = OD_Empty
    /\ glue_ops = 0
    /\ callers = NoCallers
    /\ registries = OD_Empty

Init == InitGreengrass /\ InitGlue /\ last = NoCall

\* the calls that create or delete
NextGreengrass ==
    \/ CreateCoreDefinition
    \/ CreateCoreDefinitionVersion
    \/ DeleteCoreDefinition
    \/ CreateDeviceDefinition
    \/ CreateDeviceDefinitionVersion
    \/ DeleteDeviceDefinition
    \/ CreateFunctionDefinition
    \/ CreateFunctionDefinitionVersion
    \/ DeleteFunctionDefinition
    \/ CreateResourceDefinition
    \/ CreateResourceDefinitionVersion
    \/ DeleteResourceDefinition
    \/ CreateSubscriptionDefinition
    \/ CreateSubscriptionDefinitionVersion
    \/ DeleteSubscriptionDefinition
    \/ CreateGroup
    \/ CreateGroupVersion
    \/ DeleteGroup

SpecGreengrass == Init /\ [][NextGreengrass]_vars


(***************************************************************************)
(* The glue backend as a state machine.                                    *)
(***************************************************************************)
\* the calls that may change a store
NextGlue ==
    \/ CreateDatabase
    \/ DeleteDatabase
    \/ CreateTable
    \/ UpdateTable
    \/ DeleteTable
    \/ CreatePartition
    \/ UpdatePartition
    \/ DeletePartition
    \/ CreateCrawler
    \/ StartCrawler
    \/ StopCrawler
    \/ DeleteCrawler
    \/ CreateJob
    \/ StartJobRun

SpecGlue == Init /\ [][NextGlue]_vars

(***************************************************************************)
(* Both backends, with their get_* calls.  The backends share no state and *)
(* a behaviour of this specification drives one of them: greengrass        *)
(* calls are made while no glue call has changed a store, glue calls while *)
(* no uuid was handed out.                                                 *)
(***************************************************************************)
NextCrud ==
    \/ glue_ops = 0 /\ CreateCoreDefinition
    \/ glue_ops = 0 /\ CreateCoreDefinitionVersion
    \/ glue_ops = 0 /\ GetCoreDefinition
    \/ glue_ops = 0 /\ DeleteCoreDefinition
    \/ glue_ops = 0 /\ CreateDeviceDefinition
    \/ glue_ops = 0 /\ CreateDeviceDefinitionVersion
    \/ glue_ops = 0 /\ GetDeviceDefinition
    \/ glue_ops = 0 /\ DeleteDeviceDefinition
    \/ glue_ops = 0 /\ CreateFunctionDefinition
    \/ glue_ops = 0 /\ CreateFunctionDefinitionVersion
    \/ glue_ops = 0 /\ GetFunctionDefinition
    \/ glue_ops = 0 /\ DeleteFunctionDefinition
    \/ glue_ops = 0 /\ CreateResourceDefinition
    \/ glue_ops = 0 /\ CreateResourceDefinitionVersion
    \/ glue_ops = 0 /\ GetResourceDefinition
    \/ glue_ops = 0 /\ DeleteResourceDefinition
    \/ glue_ops = 0 /\ CreateSubscriptionDefinition
    \/ glue_ops = 0 /\ CreateSubscriptionDefinitionVersion
    \/ glue_ops = 0 /\ GetSubscriptionDefinition
    \/ glue_ops = 0 /\ DeleteSubscriptionDefinition
    \/ glue_ops = 0 /\ CreateGroup
    \/ glue_ops = 0 /\ CreateGroupVersion
    \/ glue_ops = 0 /\ GetGroup
    \/ glue_ops = 0 /\ DeleteGroup
    \/ uuid_count = 0 /\ CreateDatabase
    \/ uuid_count = 0 /\ GetDatabase
    \/ uuid_count = 0 /\ DeleteDatabase
    \/ uuid_count = 0 /\ CreateTable
    \/ uuid_count = 0 /\ GetTable
    \/ uuid_count = 0 /\ UpdateTable
    \/ uuid_count = 0 /\ DeleteTable
    \/ uuid_count = 0 /\ CreatePartition
    \/ uuid_count = 0 /\ GetPartition
    \/ uuid_count = 0 /\ UpdatePartition
    \/ uuid_count = 0 /\ DeletePartition
    \/ uuid_count = 0 /\ CreateCrawler
    \/ uuid_count = 0 /\ GetCrawler
    \/ uuid_count = 0 /\ StartCrawler
    \/ uuid_count = 0 /\ StopCrawler
    \/ uuid_count = 0 /\ DeleteCrawler
    \/ uuid_count = 0 /\ CreateJob
    \/ uuid_count = 0 /\ GetJob
    \/ uuid_count = 0 /\ StartJobRun

SpecCrud == Init /\ [][NextCrud]_vars

(***************************************************************************)
(* Both backends, with their listings: the calls that add an entity to a   *)
(* store or remove one, and the calls that list a store.                   *)
(***************************************************************************)
NextList ==
    \/ glue_ops = 0 /\ CreateCoreDefinition
    \/ glue_ops = 0 /\ DeleteCoreDefinition
    \/ glue_ops = 0 /\ ListCoreDefinitions
    \/ glue_ops = 0 /\ CreateDeviceDefinition
    \/ glue_ops = 0 /\ DeleteDeviceDefinition
    \/ glue_ops = 0 /\ ListDeviceDefinitions
    \/ glue_ops = 0 /\ CreateFunctionDefinition
    \/ glue_ops = 0 /\ DeleteFunctionDefinition
    \/ glue_ops = 0 /\ ListFunctionDefinitions
    \/ glue_ops = 0 /\ CreateResourceDefinition
    \/ glue_ops = 0 /\ DeleteResourceDefinition
    \/ glue_ops = 0 /\ ListResourceDefinitions
    \/ glue_ops = 0 /\ CreateSubscriptionDefinition
    \/ glue_ops = 0 /\ DeleteSubscriptionDefinition
    \/ glue_ops = 0 /\ ListSubscriptionDefinitions
    \/ glue_ops = 0 /\ CreateGroup
    \/ glue_ops = 0 /\ DeleteGroup
    \/ glue_ops = 0 /\ ListGroups
    \/ uuid_count = 0 /\ CreateDatabase
    \/ uuid_count = 0 /\ DeleteDatabase
    \/ uuid_count = 0 /\ GetDatabases
    \/ uuid_count = 0 /\ CreateTable
    \/ uuid_count = 0 /\ DeleteTable
    \/ uuid_count = 0 /\ GetTables
    \/ uuid_count = 0 /\ CreateCrawler
    \/ uuid_count = 0 /\ StartCrawler
    \/ uuid_count = 0 /\ DeleteCrawler
    \/ uuid_count = 0 /\ GetCrawlers
    \/ uuid_count = 0 /\ ListCrawlers
    \/ uuid_count = 0 /\ CreateJob
    \/ uuid_count = 0 /\ ListJobs

SpecList == Init /\ [][NextList]_vars

(***************************************************************************)
(* One table: the backend after create_database and create_table, and the  *)
(* calls on the tables of the database, their snapshots and partitions.    *)
(***************************************************************************)
InitTable ==
    /\ InitGreengrass
    /\ \E table_input \in TableInputs :
        LET g0 == [databases |-> OD_Empty, crawlers |-> OD_Empty, jobs |-> OD_Empty,
                   tagger |-> OD_Empty]
            g1 == create_database(g0, "db1", {}).g
            g2 == create_table(g1, "db1", "t1", table_input).g
        IN  /\ databases = g2.databases
            /\ crawlers = g2.crawlers
            /\ jobs = g2.jobs
            /\ tagger = g2.tagger
    /\ glue_ops = 0
    /\ callers = NoCallers
    /\ registries = OD_Empty
    /\ last = NoCall

NextTable ==
    \/ CreateTable
    \/ DeleteTable
    \/ UpdateTable
    \/ GetTableVersion
    \/ CreatePartition
    \/ GetPartition
    \/ UpdatePartition
    \/ DeletePartition

SpecTable == InitTable /\ [][NextTable]_vars

(***************************************************************************)
(* The greengrass backend with its version look-ups.                       *)
(***************************************************************************)
NextVersions ==
    \/ NextGreengrass
    \/ GetCoreDefinitionVersion
    \/ GetDeviceDefinitionVersion
    \/ GetFunctionDefinitionVersion
    \/ GetResourceDefinitionVersion
    \/ GetSubscriptionDefinitionVersion
    \/ GetGroupVersion

SpecVersions == Init /\ [][NextVersions]_vars



(***************************************************************************)
(* Vocabulary of the properties.                                           *)
(***************************************************************************)
AllKinds == Kinds \cup {"groups"}

\* the parent map of a kind
ParentsOf(kind) ==
    CASE kind = "cores" -> core_definitions
      [] kind = "devices" -> device_definitions
      [] kind = "functions" -> function_definitions
      [] kind = "resources" -> resource_definitions
      [] kind = "subscriptions" -> subscription_definitions
      [] kind = "groups" -> groups

\* the version-collection map of a kind
VersionsOf(kind) == IF kind = "groups" THEN group_versions ELSE VersionsOfKind(kind)

CreateOp(kind) ==
    CASE kind = "cores" -> "create_core_definition"
      [] kind = "devices" -> "create_device_definition"
      [] kind = "functions" -> "create_function_definition"
      [] kind = "resources" -> "create_resource_definition"
      [] kind = "subscriptions" -> "create_subscription_definition"
      [] kind = "groups" -> "create_group"

CreateVersionOp(kind) ==
    CASE kind = "cores" -> "create_core_definition_version"
      [] kind = "devices" -> "create_device_definition_version"
      [] kind = "functions" -> "create_function_definition_version"
      [] kind = "resources" -> "create_resource_definition_version"
      [] kind = "subscriptions" -> "create_subscription_definition_version"
      [] kind = "groups" -> "create_group_version"

DeleteOp(kind) ==
    CASE kind = "cores" -> "delete_core_definition"
      [] kind = "devices" -> "delete_device_definition"
      [] kind = "functions" -> "delete_function_definition"
      [] kind = "resources" -> "delete_resource_definition"
      [] kind = "subscriptions" -> "delete_subscription_definition"
      [] kind = "groups" -> "delete_group"

GetOp(kind) ==
    CASE kind = "cores" -> "get_core_definition"
      [] kind = "devices" -> "get_device_definition"
      [] kind = "functions" -> "get_function_definition"
      [] kind = "resources" -> "get_resource_definition"
      [] kind = "subscriptions" -> "get_subscription_definition"
      [] kind = "groups" -> "get_group"

\* the five references recorded on a stored group version, by kind
RefsOfGroupVersion(gv) ==
    [cores |-> gv.core_definition_version_arn,
     devices |-> gv.device_definition_version_arn,
     functions |-> gv.function_definition_version_arn,
     resources |-> gv.resource_definition_version_arn,
     subscriptions |-> gv.subscription_definition_version_arn]

\* conditions (a)-(d) of a valid reference, stated on the stores: the ARN is
\* a definition-version ARN of the kind, in some region, whose definition id
\* and version id are stored and whose stored version records this very ARN
RefResolves(arn, kind) ==
    \E region \in {region_name, OtherRegion} :
        \E i \in DOMAIN VersionsOfKind(kind) :
            LET definition_id == VersionsOfKind(kind)[i][1]
                versions == VersionsOfKind(kind)[i][2]
            IN  \E j \in DOMAIN versions :
                    /\ arn = DefinitionVersionArn(region, kind, definition_id,
                                                  versions[j][1])
                    /\ versions[j][2].arn = arn

\* the message _validate_group_version_definitions reports for a kind
ReferenceMessage(kind) ==
    CASE kind = "cores" -> "Cores definition reference does not exist"
      [] kind = "functions" -> "Lambda definition reference does not exist"
      [] kind = "resources" -> "Resource definition reference does not exist"
      [] kind = "devices" -> "Devices definition reference does not exist"
      [] kind = "subscriptions" -> "Subscription definition reference does not exist"

\* the kinds whose reference is non-null and does not resolve
InvalidKinds(refs) == {k \in Kinds : refs[k] # None /\ ~RefResolves(refs[k], k)}

(***************************************************************************)
(* C1.  A create_group whose initial version fails validation registers no *)
(* group: the set of group ids is the same as before the call, that is,    *)
(* the id generated for the group (last.id) is not in the group store.     *)
(***************************************************************************)
C1_FailedCreateGroupRegistersNothing ==
    (last.op = "create_group" /\ last.res # "ok") => ~OD_Has(groups, last.id)

(***************************************************************************)
(* C2.  After a successful create_<kind>_version on an existing parent,    *)
(* of a group or of any definition kind, the parent's latest_version is    *)
(* the id of the new version and latest_version_arn is its ARN.            *)
(***************************************************************************)
C2_LatestPointsToNewVersion ==
    \A kind \in AllKinds :
        (last.op = CreateVersionOp(kind) /\ last.res = "ok")
            => LET parent == OD_Get(ParentsOf(kind), last.id)
               IN  /\ parent.latest_version = last.ret.version
                   /\ parent.latest_version_arn = last.ret.arn


(***************************************************************************)
(* C3.  After a successful create_<kind>_definition, for each of the five  *)
(* definition kinds, the version stored under (parent.id,                  *)
(* parent.latest_version) exists, holds the submitted initial content and  *)
(* has the ARN parent.latest_version_arn.                                  *)
(***************************************************************************)
\* whether a stored version holds the content of an initial_version payload
HoldsInitialContent(kind, version, initial_version) ==
    CASE kind = "cores" -> version.definition = initial_version
      [] kind = "devices" -> version.devices = DictGet(initial_version, "Devices")
      [] kind = "functions" ->
            /\ version.functions = DictGet(initial_version, "Functions")
            /\ version.default_config = DictGet(initial_version, "DefaultConfig")
      [] kind = "resources" -> version.resources = DictGet(initial_version, "Resources")
      [] kind = "subscriptions" ->
            version.subscriptions = DictGet(initial_version, "Subscriptions")

C3_InitialVersionRoundTrip ==
    \A kind \in Kinds :
        (last.op = CreateOp(kind) /\ last.res = "ok")
            => /\ OD_Has(ParentsOf(kind), last.id)
               /\ LET parent == OD_Get(ParentsOf(kind), last.id)
                  IN  /\ OD_Has(VersionsOf(kind), parent.id)
                      /\ OD_Has(OD_Get(VersionsOf(kind), parent.id), parent.latest_version)
                      /\ LET version == OD_Get(OD_Get(VersionsOf(kind), parent.id),
                                               parent.latest_version)
                         IN  /\ HoldsInitialContent(kind, version, last.args)
                             /\ version.arn = parent.latest_version_arn

C3_Witness ==
    /\ last.op = "create_subscription_definition"
    /\ last.res = "ok"
    /\ OD_Has(subscription_definitions, last.id)

(***************************************************************************)
(* C4.  A delete of an id that is in the parent map, for groups and the    *)
(* five definition kinds, completes without error and removes the id from *)
(* both maps: it never removes the parent and then fails on the version    *)
(* collection.                                                             *)
(***************************************************************************)
C4_DeleteRemovesBoth ==
    \A kind \in AllKinds :
        last.op = DeleteOp(kind)
            => /\ last.res \in {"ok", "IdNotFoundException"}
               /\ last.res = "ok"
                      => /\ ~OD_Has(ParentsOf(kind), last.id)
                         /\ ~OD_Has(VersionsOf(kind), last.id)

(***************************************************************************)
(* C5.  create_group_version on an existing group succeeds exactly when    *)
(* every non-null reference resolves (conditions (a)-(d)); with five null  *)
(* references it succeeds, with a reference to a definition id that was    *)
(* never created it fails.                                                 *)
(***************************************************************************)
\* references to try for a kind: null, of a definition never created, not
\* of the shape, and for every stored version its ARN, that ARN in another
\* region, with an unknown version id, and as an ARN of every other kind
C5_RefsOfKind(kind) ==
    {None, UnknownDefinitionRef(kind),
     DefinitionVersionArn(region_name, kind, NotAUuid, NotAUuid)}
        \cup StoredVersionArns(kind)
        \cup {DefinitionVersionArn(OtherRegion, kind, a[4], a[6]) :
                 a \in StoredVersionArns(kind)}
        \cup {DefinitionVersionArn(region_name, kind, a[4], UnknownUuid) :
                 a \in StoredVersionArns(kind)}
        \cup UNION {StoredVersionArns(k) : k \in Kinds \ {kind}}
        \cup {GroupVersionArn(region_name, UnknownUuid, UnknownUuid)}

\* calls with one non-null reference, and calls with five
C5_Refs ==
    {[NoRefs EXCEPT ![k] = a] : <<k, a>> \in
        {<<k, a>> \in Kinds \X UNION {C5_RefsOfKind(kk) : kk \in Kinds} :
            a \in C5_RefsOfKind(k)}}
        \cup {[k \in Kinds |-> IF StoredVersionArns(k) = {}
                               THEN None
                               ELSE CHOOSE a \in StoredVersionArns(k) : TRUE],
              [k \in Kinds |-> IF StoredVersionArns(k) = {}
                               THEN UnknownDefinitionRef(k)
                               ELSE CHOOSE a \in StoredVersionArns(k) : TRUE]}

C5_SucceedsIffAllResolve ==
    \A i \in DOMAIN groups :
        /\ create_group_version(groups, group_versions, uuid_count,
                                groups[i][1], NoRefs).res = "ok"
        /\ \A k \in Kinds :
               create_group_version(groups, group_versions, uuid_count, groups[i][1],
                                    [NoRefs EXCEPT ![k] = UnknownDefinitionRef(k)]).res
                   # "ok"
        /\ \A refs \in C5_Refs :
               (create_group_version(groups, group_versions, uuid_count,
                                     groups[i][1], refs).res = "ok")
                   <=> (InvalidKinds(refs) = {})

C5_Witness ==
    /\ last.op = "create_group_version"
    /\ last.res = "ok"
    /\ \E k \in Kinds : StoredVersionArns(k) # {}

(***************************************************************************)
(* C6.  With k >= 1 invalid references create_group_version raises one     *)
(* error whose detail lists one message for each invalid reference, stores *)
(* no group version and leaves the group's latest_version and              *)
(* latest_version_arn as they were.                                        *)
(***************************************************************************)
C6_Refs ==
    {[cores |-> c, devices |-> d, functions |-> f, resources |-> r, subscriptions |-> x] :
        c \in RefInputs("cores"), d \in RefInputs("devices"),
        f \in RefInputs("functions"), r \in RefInputs("resources"),
        x \in RefInputs("subscriptions")}

C6_AllInvalidReferencesReported ==
    \A i \in DOMAIN groups :
        \A refs \in C6_Refs :
            LET o == create_group_version(groups, group_versions, uuid_count,
                                          groups[i][1], refs)
            IN  InvalidKinds(refs) # {}
                    => /\ o.res = "GreengrassClientError"
                       /\ Len(o.ret) = Cardinality(InvalidKinds(refs))
                       /\ {o.ret[m] : m \in DOMAIN o.ret}
                              = {ReferenceMessage(k) : k \in InvalidKinds(refs)}
                       /\ o.vers = group_versions
                       /\ o.defs = groups
                       /\ o.n = uuid_count

C6_Witness ==
    /\ last.op = "create_group_version"
    /\ last.res = "GreengrassClientError"
    /\ Len(last.ret) = 5
    /\ OD_Has(groups, last.id)

(***************************************************************************)
(* C7.  Referential integrity in every reachable state: every non-null     *)
(* definition-version ARN recorded in a stored group version resolves to a *)
(* definition id and version id present in the version store of its kind.  *)
(***************************************************************************)
\* the stored group versions
StoredGroupVersions ==
    {group_versions[i][2][j][2] : <<i, j>> \in
        {<<i, j>> \in (DOMAIN group_versions) \X (1..MaxUuid + 1) :
            j \in DOMAIN group_versions[i][2]}}

C7_ReferentialIntegrity ==
    \A gv \in StoredGroupVersions :
        InvalidKinds(RefsOfGroupVersion(gv)) = {}

\* C7 as amended: in the state right after a successful create_group or
\* create_group_version, every non-null reference recorded in the new group
\* version resolves
C7_ReferencesResolveWhenStored ==
    (last.op \in {"create_group", "create_group_version"} /\ last.res = "ok")
        => LET group == OD_Get(groups, last.id)
               gv == OD_Get(OD_Get(group_versions, last.id), group.latest_version)
           IN  InvalidKinds(RefsOfGroupVersion(gv)) = {}

C7_Witness ==
    /\ last.op = "create_group"
    /\ last.res = "ok"
    /\ \E gv \in StoredGroupVersions :
           /\ gv.group_id = last.id
           /\ gv.core_definition_version_arn # None

(***************************************************************************)
(* Vocabulary of the glue properties.                                      *)
(***************************************************************************)
AlreadyExistsErrors ==
    {"DatabaseAlreadyExistsException", "TableAlreadyExistsException",
     "PartitionAlreadyExistsException", "CrawlerAlreadyExistsException",
     "JobAlreadyExistsException", "AlreadyExistsException"}

NotFoundErrors ==
    {"DatabaseNotFoundException", "TableNotFoundException",
     "PartitionNotFoundException", "CrawlerNotFoundException",
     "IdNotFoundException"}

\* the stored tables of a stored database
TablesOf(database_name) == OD_Get(databases, database_name).tables

(***************************************************************************)
(* C8.  In every reachable state, create_database with the name of a       *)
(* stored database, create_table with the name of a table stored under the *)
(* same database and create_crawler with the name of a stored crawler,     *)
(* with any input, fail with the AlreadyExists error of the kind and leave *)
(* every store as it is: the existing entity, its tables, their versions   *)
(* and partitions, the crawler's state and the tags.                       *)
(***************************************************************************)
C8_DuplicateCreateChangesNothing ==
    /\ \A database_name \in OD_Keys(databases), database_input \in DatabaseInputs :
           LET o == create_database(Glue, database_name, database_input)
           IN  o.res = "DatabaseAlreadyExistsException" /\ o.g = Glue
    /\ \A database_name \in OD_Keys(databases) :
           \A table_name \in OD_Keys(TablesOf(database_name)),
              table_input \in TableInputs :
               LET o == create_table(Glue, database_name, table_name, table_input)
               IN  o.res = "TableAlreadyExistsException" /\ o.g = Glue
    /\ \A name \in OD_Keys(crawlers), fields \in FieldInputs, tags \in TagInputs :
           LET o == create_crawler(Glue, name, fields, tags)
           IN  o.res = "CrawlerAlreadyExistsException" /\ o.g = Glue
    /\ (/\ last.op \in {"create_database", "create_table", "create_crawler"}
        /\ last.res # "ok"
        /\ last.res # "DatabaseNotFoundException")
           => last.res \in AlreadyExistsErrors

\* a create_table on a stored name has just failed; the stored table holds
\* two snapshots and a partition
C8_Witness ==
    /\ last.op = "create_table"
    /\ last.res = "TableAlreadyExistsException"
    /\ OD_Has(databases, last.id[1])
    /\ LET table == OD_Get(TablesOf(last.id[1]), last.id[2])
       IN  Len(table.versions) + Len(table.partitions) >= 2
              /\ table.versions[1] # last.args

(***************************************************************************)
(* C9.  In every reachable state, create_job with the name of a stored job *)
(* fails with an AlreadyExists error and leaves the job store as it is.    *)
(***************************************************************************)
C9_DuplicateCreateJobFails ==
    \A name \in OD_Keys(jobs), fields \in FieldInputs, tags \in TagInputs :
        LET o == create_job(Glue, name, fields, tags)
        IN  o.res \in AlreadyExistsErrors /\ o.g.jobs = jobs

(***************************************************************************)
(* Vocabulary of C10: the identifiers a store holds and the get and delete *)
(* calls of a kind, evaluated on the current state.                        *)
(***************************************************************************)
GetOf(kind, id) ==
    CASE kind = "cores" ->
             get_core_definition(core_definitions, core_definition_versions,
                                 uuid_count, id)
      [] kind = "devices" ->
             get_device_definition(device_definitions, device_definition_versions,
                                   uuid_count, id)
      [] kind = "functions" ->
             get_function_definition(function_definitions,
                                     function_definition_versions, uuid_count, id)
      [] kind = "resources" ->
             get_resource_definition(resource_definitions,
                                     resource_definition_versions, uuid_count, id)
      [] kind = "subscriptions" ->
             get_subscription_definition(subscription_definitions,
                                         subscription_definition_versions,
                                         uuid_count, id)
      [] kind = "groups" -> get_group(groups, group_versions, uuid_count, id)

DeleteOf(kind, id) ==
    CASE kind = "cores" ->
             delete_core_definition(core_definitions, core_definition_versions,
                                    uuid_count, id)
      [] kind = "devices" ->
             delete_device_definition(device_definitions, device_definition_versions,
                                      uuid_count, id)
      [] kind = "functions" ->
             delete_function_definition(function_definitions,
                                        function_definition_versions, uuid_count, id)
      [] kind = "resources" ->
             delete_resource_definition(resource_definitions,
                                        resource_definition_versions, uuid_count, id)
      [] kind = "subscriptions" ->
             delete_subscription_definition(subscription_definitions,
                                            subscription_definition_versions,
                                            uuid_count, id)
      [] kind = "groups" -> delete_group(groups, group_versions, uuid_count, id)

\* identifiers of tables and partitions a caller may pass
TableIds == DatabaseNames \X TableNames

PartitionIds == DatabaseNames \X TableNames \X (PartitionValues \cup {<<>>})

StoredTables ==
    {id \in TableIds : OD_Has(databases, id[1]) /\ OD_Has(TablesOf(id[1]), id[2])}

StoredPartitions ==
    {id \in PartitionIds :
        /\ <<id[1], id[2]>> \in StoredTables
        /\ OD_Has(OD_Get(TablesOf(id[1]), id[2]).partitions, str(id[3]))}

GetPartitionOf(id) ==
    OnTable(Glue, id[1], id[2],
            FakeTable_get_partition(TableOf(Glue, id[1], id[2]), id[3]))

DeletePartitionOf(id) ==
    OnTable(Glue, id[1], id[2],
            FakeTable_delete_partition(TableOf(Glue, id[1], id[2]), id[3]))

\* get succeeds exactly on the stored identifiers and fails with NotFound on
\* the others; delete of an identifier that is not stored fails with
\* NotFound and leaves the stores as they are
C10_GetAndDeleteByPresence(present, get, delete, unchanged) ==
    /\ present => get.res = "ok"
    /\ ~present => /\ get.res \in NotFoundErrors
                   /\ delete.res \in NotFoundErrors
                   /\ unchanged

C10_Greengrass ==
    \A kind \in AllKinds :
        /\ (last.op = CreateOp(kind) /\ last.res = "ok")
               => LET o == GetOf(kind, last.id)
                  IN  /\ o.res = "ok"
                      /\ o.ret.id = last.id
                      /\ o.ret.name \in Names
                      /\ o.ret.arn = (IF kind = "groups"
                                      THEN GroupArn(region_name, last.id)
                                      ELSE DefinitionArn(region_name, kind, last.id))
        /\ (last.op = DeleteOp(kind) /\ last.res = "ok")
               => GetOf(kind, last.id).res = "IdNotFoundException"
        /\ last.op = GetOp(kind)
               => (last.res = "ok") = OD_Has(ParentsOf(kind), last.id)
        /\ \A id \in IssuedUuids \cup {UnknownUuid} :
               C10_GetAndDeleteByPresence(
                   OD_Has(ParentsOf(kind), id), GetOf(kind, id), DeleteOf(kind, id),
                   /\ DeleteOf(kind, id).defs = ParentsOf(kind)
                   /\ DeleteOf(kind, id).vers = VersionsOf(kind)
                   /\ DeleteOf(kind, id).n = uuid_count)

C10_Glue ==
    /\ (last.op = "create_database" /\ last.res = "ok")
           => get_database(Glue, last.id) = GlueOutcome(Glue, "ok", last.ret)
    /\ (last.op = "create_table" /\ last.res = "ok")
           => get_table(Glue, last.id[1], last.id[2]) = GlueOutcome(Glue, "ok", last.ret)
    /\ (last.op = "create_partition" /\ last.res = "ok")
           => GetPartitionOf(last.id) =
                  GlueOutcome(Glue, "ok",
                              FakePartition(last.id[1], last.id[2], last.args))
    /\ (last.op = "create_crawler" /\ last.res = "ok")
           => get_crawler(Glue, last.id) =
                  GlueOutcome(Glue, "ok", FakeCrawler(last.id, last.args[1]))
    /\ (last.op = "delete_database" /\ last.res = "ok")
           => get_database(Glue, last.id).res = "DatabaseNotFoundException"
    /\ (last.op = "delete_table" /\ last.res = "ok")
           => get_table(Glue, last.id[1], last.id[2]).res = "TableNotFoundException"
    /\ (last.op = "delete_partition" /\ last.res = "ok")
           => GetPartitionOf(last.id).res = "PartitionNotFoundException"
    /\ (last.op = "delete_crawler" /\ last.res = "ok")
           => get_crawler(Glue, last.id).res = "CrawlerNotFoundException"
    /\ last.op = "get_database" => (last.res = "ok") = OD_Has(databases, last.id)
    /\ last.op = "get_table" => (last.res = "ok") = (last.id \in StoredTables)
    /\ last.op = "get_partition" => (last.res = "ok") = (last.id \in StoredPartitions)
    /\ last.op = "get_crawler" => (last.res = "ok") = OD_Has(crawlers, last.id)
    /\ \A id \in DatabaseNames :
           C10_GetAndDeleteByPresence(
               OD_Has(databases, id), get_database(Glue, id),
               delete_database(Glue, id), delete_database(Glue, id).g = Glue)
    /\ \A id \in TableIds :
           C10_GetAndDeleteByPresence(
               id \in StoredTables, get_table(Glue, id[1], id[2]),
               delete_table(Glue, id[1], id[2]),
               delete_table(Glue, id[1], id[2]).g = Glue)
    /\ \A id \in PartitionIds :
           C10_GetAndDeleteByPresence(
               id \in StoredPartitions, GetPartitionOf(id), DeletePartitionOf(id),
               DeletePartitionOf(id).g = Glue)
    /\ \A id \in CrawlerNames :
           C10_GetAndDeleteByPresence(
               OD_Has(crawlers, id), get_crawler(Glue, id),
               delete_crawler(Glue, id), delete_crawler(Glue, id).g = Glue)

\* an identifier that is not stored becomes stored only by a create call for
\* that identifier; a partition key also by an update_partition to that key,
\* which stores a partition under it
C10_StoredOnlyByCreate ==
    /\ \A kind \in AllKinds :
           \A id \in OD_Keys(ParentsOf(kind)') \ OD_Keys(ParentsOf(kind)) :
               last'.op = CreateOp(kind) /\ last'.id = id
    /\ \A id \in OD_Keys(databases') \ OD_Keys(databases) :
           last'.op = "create_database" /\ last'.id = id /\ last'.res = "ok"
    /\ \A id \in StoredTables' \ StoredTables :
           last'.op = "create_table" /\ last'.id = id /\ last'.res = "ok"
    /\ \A id \in StoredPartitions' \ StoredPartitions :
           /\ last'.op \in {"create_partition", "update_partition"}
           /\ last'.id = id
           /\ last'.res = "ok"
    /\ \A id \in OD_Keys(crawlers') \ OD_Keys(crawlers) :
           last'.op = "create_crawler" /\ last'.id = id /\ last'.res = "ok"

ListOf(kind) ==
    CASE kind = "cores" ->
           list_core_definitions(core_definitions, core_definition_versions, uuid_count)
      [] kind = "devices" ->
           list_device_definitions(device_definitions, device_definition_versions,
                                   uuid_count)
      [] kind = "functions" ->
           list_function_definitions(function_definitions,
                                     function_definition_versions, uuid_count)
      [] kind = "resources" ->
           list_resource_definitions(resource_definitions,
                                     resource_definition_versions, uuid_count)
      [] kind = "subscriptions" ->
           list_subscription_definitions(subscription_definitions,
                                         subscription_definition_versions, uuid_count)
      [] kind = "groups" -> list_groups(groups, group_versions, uuid_count)

\* a listing that returned, without error, the entities of the store in the
\* store's order (the empty sequence for the empty store)
ListsStore(o, store) ==
    /\ o.res = "ok"
    /\ o.ret = [i \in DOMAIN store |-> store[i][2]]
    /\ store = OD_Empty => o.ret = <<>>

KeyList(od) == [i \in DOMAIN od |-> od[i][1]]

\* from store od to store od1 the keys that stay keep their order and the
\* keys that are new come after them
OrderKept(od, od1) ==
    /\ SelectSeq(KeyList(od), LAMBDA k : k \in OD_Keys(od1))
           = SelectSeq(KeyList(od1), LAMBDA k : k \in OD_Keys(od))
    /\ \A i, j \in DOMAIN od1 :
           i < j /\ od1[i][1] \notin OD_Keys(od) => od1[j][1] \notin OD_Keys(od)

C11_ListsTheStore ==
    /\ \A kind \in AllKinds : ListsStore(ListOf(kind), ParentsOf(kind))
    /\ ListsStore(get_databases(Glue), databases)
    /\ \A database_name \in OD_Keys(databases) :
           ListsStore(get_tables(Glue, database_name), TablesOf(database_name))
    /\ ListsStore(get_crawlers(Glue), crawlers)
    /\ ListsStore(list_crawlers(Glue), crawlers)
    /\ ListsStore(list_jobs(Glue), jobs)

C11_StoreInInsertionOrder ==
    /\ \A kind \in AllKinds : OrderKept(ParentsOf(kind), ParentsOf(kind)')
    /\ OrderKept(databases, databases')
    /\ \A database_name \in OD_Keys(databases) \cap OD_Keys(databases') :
           OrderKept(TablesOf(database_name), TablesOf(database_name)')
    /\ OrderKept(crawlers, crawlers')
    /\ OrderKept(jobs, jobs')

(***************************************************************************)
(* C11.  Every listing (get_databases, get_tables of a stored database,    *)
(* get_crawlers, list_crawlers, list_jobs, list_groups and the five        *)
(* list_<kind>_definitions) returns without error the sequence of exactly  *)
(* the entities in its store, in the store's order, and the empty sequence *)
(* for an empty store; and the store's order is the order of insertion:    *)
(* no call changes the relative order of the entities that stay, and an    *)
(* entity that is new comes after them.                                    *)
(***************************************************************************)
C11_ListingsReturnStoreInOrder ==
    /\ []C11_ListsTheStore
    /\ [][C11_StoreInInsertionOrder]_vars

\* the tables in the store
AllTables == {OD_Get(TablesOf(id[1]), id[2]) : id \in StoredTables}

\* the version tokens that parse as an integer, with the integer
IntegerTokens ==
    {<<<<"0">>, 0>>, <<<<"1">>, 1>>, <<<<"2">>, 2>>, <<<<"3">>, 3>>, <<<<"4">>, 4>>,
     <<<<"-", "1">>, 0 - 1>>, <<<<"1", "0">>, 10>>}

(***************************************************************************)
(* C12.  For every stored table, with n snapshots, and every version       *)
(* token: a token that parses as the integer k gets the k-th snapshot in   *)
(* append order when 1 <= k <= n and VersionNotFound for every other k     *)
(* (0, negative, n + 1, ...); a token that does not parse as an integer    *)
(* gets InvalidInput.                                                      *)
(***************************************************************************)
C12_GetVersionIsOneBased ==
    \A table \in AllTables :
        /\ \A tk \in IntegerTokens :
               LET o == FakeTable_get_version(table, tk[1])
               IN  IF 1 <= tk[2] /\ tk[2] <= Len(table.versions)
                   THEN o.res = "ok" /\ o.ret = table.versions[tk[2]]
                   ELSE o.res = "VersionNotFoundException"
        /\ \A ver \in VersionTokens \ {tk[1] : tk \in IntegerTokens} :
               FakeTable_get_version(table, ver).res = "InvalidInputException"

\* the snapshots of a stored table
VersionsOfTable(id) == OD_Get(TablesOf(id[1]), id[2]).versions

(***************************************************************************)
(* C13.  For every stored table and every input, update succeeds and       *)
(* leaves the table with every snapshot it had at its index, unchanged,    *)
(* and exactly one more snapshot, the input; and create_table of a name    *)
(* not stored under a stored database leaves the new table with exactly    *)
(* one snapshot, the input of the create.  The stored tables are those     *)
(* that any sequence of creates, updates and deletes leaves.               *)
(***************************************************************************)
C13_UpdateAppendsSnapshot ==
    /\ \A table \in AllTables, table_input \in TableInputs :
           LET o == FakeTable_update(table, table_input)
           IN  /\ o.res = "ok"
               /\ Len(o.table.versions) = Len(table.versions) + 1
               /\ \A i \in DOMAIN table.versions :
                      o.table.versions[i] = table.versions[i]
               /\ o.table.versions[Len(table.versions) + 1] = table_input
    /\ \A id \in TableIds \ StoredTables, table_input \in TableInputs :
           OD_Has(databases, id[1]) =>
               LET o == create_table(Glue, id[1], id[2], table_input)
               IN  /\ o.res = "ok"
                   /\ get_table(o.g, id[1], id[2]).ret.versions = <<table_input>>

C13_Witness ==
    /\ last.op = "update_table"
    /\ last.res = "ok"
    /\ Len(VersionsOfTable(last.id)) >= 3
    /\ VersionsOfTable(last.id)[1] # VersionsOfTable(last.id)[2]

\* the partitions of a table in listing order
PartitionList(table) == [i \in DOMAIN table.partitions |-> table.partitions[i][2]]

\* the ordered value list of a partition input
ValuesOf(partiton_input) == DictGetOr(partiton_input, "Values", <<>>)

\* some stored partition of the table has this ordered value list
HasPartition(table, values) ==
    \E i \in DOMAIN table.partitions : table.partitions[i][2].values = values

(***************************************************************************)
(* C14.  For every stored table and every partition input: when a          *)
(* partition with the same ordered value list is stored, create_partition  *)
(* fails with AlreadyExists and leaves the table, the stored partition     *)
(* included, unchanged; otherwise it succeeds, the partition listing is    *)
(* the old listing followed by the new partition, and get_partition with   *)
(* the same value list returns that partition.                             *)
(***************************************************************************)
C14_CreatePartition ==
    \A table \in AllTables, partiton_input \in PartitionInputs :
        LET o == FakeTable_create_partition(table, partiton_input)
            created == FakePartition(table.database_name, table.name, partiton_input)
        IN  IF HasPartition(table, ValuesOf(partiton_input))
            THEN /\ o.res = "PartitionAlreadyExistsException"
                 /\ o.table = table
            ELSE /\ o.res = "ok"
                 /\ PartitionList(o.table) = Append(PartitionList(table), created)
                 /\ FakeTable_get_partition(o.table, ValuesOf(partiton_input)).res = "ok"
                 /\ FakeTable_get_partition(o.table, ValuesOf(partiton_input)).ret
                        = created

C14_Witness ==
    /\ last.op = "create_partition"
    /\ last.res = "PartitionAlreadyExistsException"
    /\ last.id[3] = <<"a">>
    /\ DictHas(last.args, "Parameters")
    /\ Len(PartitionList(TableOf(Glue, last.id[1], last.id[2]))) >= 2
    /\ ~DictHas(FakeTable_get_partition(TableOf(Glue, last.id[1], last.id[2]),
                                        <<"a">>).ret.partition_input, "Parameters")

\* partition inputs that carry "Values"
KeyedPartitionInputs == {p \in PartitionInputs : DictHas(p, "Values")}

(***************************************************************************)
(* C15.  For every stored table and every partition input,                 *)
(* update_partition with old_values equal to the input's Values: when a    *)
(* partition with these values is stored it succeeds, the listing has the  *)
(* same length, the partition built from the input stands at the position  *)
(* of the old one and every other position holds the partition it held;    *)
(* when no partition has these values it fails with NotFound.              *)
(***************************************************************************)
C15_UpdateInPlaceKeepsOrder ==
    \A table \in AllTables, partiton_input \in KeyedPartitionInputs :
        LET values == ValuesOf(partiton_input)
            o == FakeTable_update_partition(table, values, partiton_input)
            updated == FakePartition(table.database_name, table.name, partiton_input)
        IN  IF HasPartition(table, values)
            THEN /\ o.res = "ok"
                 /\ Len(PartitionList(o.table)) = Len(PartitionList(table))
                 /\ \A i \in DOMAIN PartitionList(table) :
                        PartitionList(o.table)[i] =
                            IF PartitionList(table)[i].values = values
                            THEN updated
                            ELSE PartitionList(table)[i]
            ELSE o.res = "PartitionNotFoundException"

C15_Witness ==
    /\ last.op = "update_partition"
    /\ last.res = "ok"
    /\ last.args[1] = last.id[3]
    /\ DictHas(last.args[2], "Parameters")
    /\ LET partitions == PartitionList(TableOf(Glue, last.id[1], last.id[2]))
       IN  /\ Len(partitions) >= 2
           /\ partitions[1].partition_input = last.args[2]

(***************************************************************************)
(* C16.  For every stored table, every partition input and every           *)
(* old_values different from the input's Values: when no partition has     *)
(* old_values, update_partition fails with NotFound; when one has and a    *)
(* partition with the new values is stored too, it fails with              *)
(* AlreadyExists; when one has and none has the new values, it succeeds,   *)
(* afterwards no partition has old_values, get_partition with the new      *)
(* values returns the partition built from the input and the number of     *)
(* partitions is what it was.                                              *)
(***************************************************************************)
C16_UpdateChangesKey ==
    \A table \in AllTables, partiton_input \in KeyedPartitionInputs :
        \A old_values \in (PartitionValues \cup {<<>>}) \ {ValuesOf(partiton_input)} :
            LET values == ValuesOf(partiton_input)
                o == FakeTable_update_partition(table, old_values, partiton_input)
            IN  IF ~HasPartition(table, old_values)
                THEN o.res = "PartitionNotFoundException"
                ELSE IF HasPartition(table, values)
                THEN o.res = "PartitionAlreadyExistsException"
                ELSE /\ o.res = "ok"
                     /\ ~HasPartition(o.table, old_values)
                     /\ FakeTable_get_partition(o.table, old_values).res
                            = "PartitionNotFoundException"
                     /\ FakeTable_get_partition(o.table, values).res = "ok"
                     /\ FakeTable_get_partition(o.table, values).ret
                            = FakePartition(table.database_name, table.name,
                                            partiton_input)
                     /\ Len(PartitionList(o.table)) = Len(PartitionList(table))

C16_Witness ==
    /\ last.op = "update_partition"
    /\ last.res = "ok"
    /\ last.args[1] # last.id[3]
    /\ LET table == TableOf(Glue, last.id[1], last.id[2])
       IN  /\ Len(PartitionList(table)) >= 2
           /\ ~HasPartition(table, last.args[1])
           /\ HasPartition(table, last.id[3])

\* a crawler name and a job name that no call ever creates
UnknownCrawler == "c0"

UnknownJob == "j0"

(***************************************************************************)
(* C17.  In every reachable state and for every crawler name: for a name   *)
(* that is not stored start_crawler and stop_crawler fail with NotFound;   *)
(* for a crawler in state RUNNING start_crawler fails with                 *)
(* CrawlerRunning and changes nothing, and stop_crawler succeeds and       *)
(* leaves it in STOPPING; for a crawler in another state stop_crawler      *)
(* fails with CrawlerNotRunning and changes nothing, and start_crawler     *)
(* succeeds and leaves it in RUNNING.                                      *)
(***************************************************************************)
C17_StartStopCrawler ==
    \A name \in CrawlerNames \cup {UnknownCrawler} :
        LET start == start_crawler(Glue, name)
            stop == stop_crawler(Glue, name)
        IN  IF ~OD_Has(crawlers, name)
            THEN /\ start.res = "CrawlerNotFoundException"
                 /\ stop.res = "CrawlerNotFoundException"
            ELSE IF OD_Get(crawlers, name).state = "RUNNING"
            THEN /\ start.res = "CrawlerRunningException"
                 /\ start.g = Glue
                 /\ stop.res = "ok"
                 /\ OD_Get(stop.g.crawlers, name).state = "STOPPING"
            ELSE /\ stop.res = "CrawlerNotRunningException"
                 /\ stop.g = Glue
                 /\ start.res = "ok"
                 /\ OD_Get(start.g.crawlers, name).state = "RUNNING"

C17_Witness ==
    /\ last.op = "stop_crawler"
    /\ last.res = "CrawlerNotRunningException"
    /\ OD_Has(crawlers, last.id)
    /\ OD_Get(crawlers, last.id).state = "STOPPING"

(***************************************************************************)
(* C18.  In every reachable state and for every job name: for a name that  *)
(* is not stored start_job_run fails with NotFound; for a job in state     *)
(* RUNNING it fails with ConcurrentRunsExceeded and changes nothing; for a *)
(* job in state READY it succeeds, returns the run id of the new run      *)
(* ("01") and leaves the job in RUNNING.                                   *)
(***************************************************************************)
C18_StartJobRun ==
    \A name \in JobNames \cup {UnknownJob} :
        LET o == start_job_run(Glue, name)
        IN  IF ~OD_Has(jobs, name)
            THEN o.res = "JobNotFoundException"
            ELSE IF OD_Get(jobs, name).state = "RUNNING"
            THEN /\ o.res = "ConcurrentRunsExceededException"
                 /\ o.g = Glue
            ELSE /\ OD_Get(jobs, name).state = "READY"
                 /\ o.res = "ok"
                 /\ o.ret = "01"
                 /\ OD_Get(o.g.jobs, name).state = "RUNNING"

C18_Witness ==
    /\ last.op = "start_job_run"
    /\ last.res = "ConcurrentRunsExceededException"
    /\ OD_Get(jobs, last.id).state = "RUNNING"

(***************************************************************************)
(* C19.  In every reachable state the state of every stored crawler is     *)
(* READY, RUNNING or STOPPING and the state of every stored job is READY   *)
(* or RUNNING; a crawler or job that a create call has just stored is in   *)
(* READY.                                                                  *)
(***************************************************************************)
C19_StateTags ==
    /\ \A i \in DOMAIN crawlers : crawlers[i][2].state \in {"READY", "RUNNING", "STOPPING"}
    /\ \A i \in DOMAIN jobs : jobs[i][2].state \in {"READY", "RUNNING"}
    /\ last.op = "create_crawler" /\ last.res = "ok" =>
           OD_Get(crawlers, last.id).state = "READY"
    /\ last.op = "create_job" /\ last.res = "ok" => OD_Get(jobs, last.id).state = "READY"

C19_Witness ==
    /\ last.op = "create_job"
    /\ last.res = "ok"
    /\ \E i \in DOMAIN crawlers : crawlers[i][2].state = "STOPPING"

\* get_<kind>_version of a kind on the current stores
GetVersionOf(kind, id, version_id) ==
    CASE kind = "cores" ->
           get_core_definition_version(core_definitions, core_definition_versions,
                                       uuid_count, id, version_id)
      [] kind = "devices" ->
           get_device_definition_version(device_definitions, device_definition_versions,
                                         uuid_count, id, version_id)
      [] kind = "functions" ->
           get_function_definition_version(function_definitions,
                                           function_definition_versions, uuid_count,
                                           id, version_id)
      [] kind = "resources" ->
           get_resource_definition_version(resource_definitions,
                                           resource_definition_versions, uuid_count,
                                           id, version_id)
      [] kind = "subscriptions" ->
           get_subscription_definition_version(subscription_definitions,
                                               subscription_definition_versions,
                                               uuid_count, id, version_id)
      [] kind = "groups" ->
           get_group_version(groups, group_versions, uuid_count, id, version_id)

\* version_id is among the versions stored for the parent id
HasVersion(kind, id, version_id) ==
    /\ OD_Has(VersionsOf(kind), id)
    /\ OD_Has(OD_Get(VersionsOf(kind), id), version_id)

(***************************************************************************)
(* C20.  For groups and the five definition kinds, in every reachable      *)
(* state, for every id and version id: when the id is not in the parent    *)
(* store, get_<kind>_version fails with NotFound (IdNotFoundException);    *)
(* when the id is in the parent store and the version id is not among the  *)
(* versions of that parent, it fails with VersionNotFound.                 *)
(***************************************************************************)
C20_GetVersionErrors ==
    \A kind \in AllKinds :
        \A id \in IdInputs(ParentsOf(kind), VersionsOf(kind)),
           version_id \in VersionIdInputs(VersionsOf(kind)) :
            IF ~OD_Has(ParentsOf(kind), id)
            THEN GetVersionOf(kind, id, version_id).res = "IdNotFoundException"
            ELSE ~HasVersion(kind, id, version_id) =>
                     GetVersionOf(kind, id, version_id).res = "VersionNotFoundException"

\* the twelve stores of the greengrass backend
GreengrassStores ==
    <<groupVars, coreVars, deviceVars, functionVars, resourceVars, subscriptionVars>>

\* a step of create_<kind>_version on an id that was not in the parent store
\* failed with NotFound and left the stores as they were
C21_UnknownParent ==
    \A kind \in AllKinds :
        last'.op = CreateVersionOp(kind) /\ ~OD_Has(ParentsOf(kind), last'.id) =>
            /\ last'.res = "IdNotFoundException"
            /\ UNCHANGED GreengrassStores

(***************************************************************************)
(* C21.  For groups and the five definition kinds, a call of               *)
(* create_<kind>_version with a parent id that is not in the parent store  *)
(* fails with NotFound (IdNotFoundException) and leaves every store        *)
(* unchanged: no version collection appears under the unknown id.          *)
(***************************************************************************)
C21_CreateVersionOfUnknownParent == [][C21_UnknownParent]_vars

(***************************************************************************)
(* Renaming: update_<kind>_definition and update_group.  The name is       *)
(* looked at before the id.                                                *)
(***************************************************************************)
\* the names a caller may pass to an update
UpdateNames == {"", "n2"}

\* the parent map with the name of one entity assigned
WithName(defs, id, name) == OD_Set(defs, id, [OD_Get(defs, id) EXCEPT !.name = name])

update_core_definition_id_first(defs, vers, n, core_definition_id, name) ==
    IF ~OD_Has(defs, core_definition_id)
    THEN Outcome(defs, vers, n, "IdNotFoundException", None)
    ELSE IF name = ""
         THEN Outcome(defs, vers, n, "InvalidContainerDefinitionException", None)
         ELSE Outcome(WithName(defs, core_definition_id, name), vers, n, "ok", None)

update_core_definition(defs, vers, n, core_definition_id, name) ==
    IF name = ""
    THEN Outcome(defs, vers, n, "InvalidContainerDefinitionException", None)
    ELSE IF ~OD_Has(defs, core_definition_id)
         THEN Outcome(defs, vers, n, "IdNotFoundException", None)
         ELSE Outcome(WithName(defs, core_definition_id, name), vers, n, "ok", None)

update_device_definition(defs, vers, n, device_definition_id, name) ==
    IF name = ""
    THEN Outcome(defs, vers, n, "InvalidContainerDefinitionException", None)
    ELSE IF ~OD_Has(defs, device_definition_id)
         THEN Outcome(defs, vers, n, "IdNotFoundException", None)
         ELSE Outcome(WithName(defs, device_definition_id, name), vers, n, "ok", None)

update_function_definition(defs, vers, n, function_definition_id, name) ==
    IF name = ""
    THEN Outcome(defs, vers, n, "InvalidContainerDefinitionException", None)
    ELSE IF ~OD_Has(defs, function_definition_id)
         THEN Outcome(defs, vers, n, "IdNotFoundException", None)
         ELSE Outcome(WithName(defs, function_definition_id, name), vers, n, "ok", None)

\* update_resource_definition raises InvalidInputException for the empty name
update_resource_definition(defs, vers, n, resource_definition_id, name) ==
    IF name = ""
    THEN Outcome(defs, vers, n, "InvalidInputException", None)
    ELSE IF ~OD_Has(defs, resource_definition_id)
         THEN Outcome(defs, vers, n, "IdNotFoundException", None)
         ELSE Outcome(WithName(defs, resource_definition_id, name), vers, n, "ok", None)

update_subscription_definition(defs, vers, n, subscription_definition_id, name) ==
    IF name = ""
    THEN Outcome(defs, vers, n, "InvalidContainerDefinitionException", None)
    ELSE IF ~OD_Has(defs, subscription_definition_id)
         THEN Outcome(defs, vers, n, "IdNotFoundException", None)
         ELSE Outcome(WithName(defs, subscription_definition_id, name), vers, n, "ok", None)

update_group(defs, vers, n, group_id, name) ==
    IF name = ""
    THEN Outcome(defs, vers, n, "InvalidContainerDefinitionException", None)
    ELSE IF ~OD_Has(defs, group_id)
         THEN Outcome(defs, vers, n, "IdNotFoundException", None)
         ELSE Outcome(WithName(defs, group_id, name), vers, n, "ok", None)

UpdateCoreDefinition ==
    \E id \in IdInputs(core_definitions, core_definition_versions), name \in UpdateNames :
        ApplyCore("update_core_definition", id, name,
                  update_core_definition(core_definitions, core_definition_versions,
                                         uuid_count, id, name))

UpdateDeviceDefinition ==
    \E id \in IdInputs(device_definitions, device_definition_versions),
       name \in UpdateNames :
        ApplyDevice("update_device_definition", id, name,
                    update_device_definition(device_definitions,
                                             device_definition_versions,
                                             uuid_count, id, name))

UpdateFunctionDefinition ==
    \E id \in IdInputs(function_definitions, function_definition_versions),
       name \in UpdateNames :
        ApplyFunction("update_function_definition", id, name,
                      update_function_definition(function_definitions,
                                                 function_definition_versions,
                                                 uuid_count, id, name))

UpdateResourceDefinition ==
    \E id \in IdInputs(resource_definitions, resource_definition_versions),
       name \in UpdateNames :
        ApplyResource("update_resource_definition", id, name,
                      update_resource_definition(resource_definitions,
                                                 resource_definition_versions,
                                                 uuid_count, id, name))

UpdateSubscriptionDefinition ==
    \E id \in IdInputs(subscription_definitions, subscription_definition_versions),
       name \in UpdateNames :
        ApplySubscription("update_subscription_definition", id, name,
                          update_subscription_definition(subscription_definitions,
                                                         subscription_definition_versions,
                                                         uuid_count, id, name))

UpdateGroup ==
    \E id \in IdInputs(groups, group_versions), name \in UpdateNames :
        ApplyGroup("update_group", id, name,
                   update_group(groups, group_versions, uuid_count, id, name))

\* the greengrass backend with its renaming calls: entities are created
\* with their initial version, renamed and deleted
NextUpdate ==
    \/ CreateCoreDefinition
    \/ CreateDeviceDefinition
    \/ CreateFunctionDefinition
    \/ CreateResourceDefinition
    \/ CreateSubscriptionDefinition
    \/ CreateGroup
    \/ CreateGroupVersion
    \/ DeleteCoreDefinition
    \/ DeleteDeviceDefinition
    \/ DeleteFunctionDefinition
    \/ DeleteResourceDefinition
    \/ DeleteSubscriptionDefinition
    \/ DeleteGroup
    \/ UpdateCoreDefinition
    \/ UpdateDeviceDefinition
    \/ UpdateFunctionDefinition
    \/ UpdateResourceDefinition
    \/ UpdateSubscriptionDefinition
    \/ UpdateGroup

SpecUpdate == Init /\ [][NextUpdate]_vars

UpdateOp(kind) ==
    CASE kind = "cores" -> "update_core_definition"
      [] kind = "devices" -> "update_device_definition"
      [] kind = "functions" -> "update_function_definition"
      [] kind = "resources" -> "update_resource_definition"
      [] kind = "subscriptions" -> "update_subscription_definition"
      [] kind = "groups" -> "update_group"

\* the exceptions that report an invalid input
InvalidInputErrors == {"InvalidContainerDefinitionException", "InvalidInputException"}

\* the parent map with every name blanked: what a renaming must leave alone
WithoutNames(defs) == [i \in DOMAIN defs |-> <<defs[i][1], [defs[i][2] EXCEPT !.name = ""]>>]

\* a step of update on a kind did what its name and id call for
C22_UpdateStep ==
    \A kind \in AllKinds :
        last'.op = UpdateOp(kind) =>
            /\ last'.args = "" =>
                   /\ last'.res \in InvalidInputErrors
                   /\ UNCHANGED GreengrassStores
            /\ last'.args # "" /\ ~OD_Has(ParentsOf(kind), last'.id) =>
                   /\ last'.res = "IdNotFoundException"
                   /\ UNCHANGED GreengrassStores
            /\ last'.args # "" /\ OD_Has(ParentsOf(kind), last'.id) =>
                   /\ last'.res = "ok"
                   /\ OD_Get(ParentsOf(kind)', last'.id).name = last'.args
                   /\ WithoutNames(ParentsOf(kind)') = WithoutNames(ParentsOf(kind))
                   /\ \A id \in OD_Keys(ParentsOf(kind)) \ {last'.id} :
                          OD_Get(ParentsOf(kind)', id) = OD_Get(ParentsOf(kind), id)
                   /\ VersionsOf(kind)' = VersionsOf(kind)
                   /\ \A other \in AllKinds \ {kind} :
                          /\ ParentsOf(other)' = ParentsOf(other)
                          /\ VersionsOf(other)' = VersionsOf(other)

(***************************************************************************)
(* C22: for groups and every definition kind, update(id, name) fails with  *)
(* an invalid-input error when name is the empty string, whether or not    *)
(* id is stored; fails with NotFound when name is non-empty and id is not  *)
(* stored; and otherwise assigns the name and nothing else: the entity's   *)
(* latest_version and latest_version_arn, its version collection and every *)
(* other entity are as before.                                             *)
(***************************************************************************)
C22_Update == [][C22_UpdateStep]_vars

\* a group that has a version was renamed
C22_Witness ==
    /\ last.op = "update_group"
    /\ last.res = "ok"
    /\ OD_Get(groups, last.id).name = "n2"
    /\ OD_Get(groups, last.id).latest_version # ""
    /\ OD_Has(group_versions, last.id)

(***************************************************************************)
(* Sources and targets of subscriptions.                                   *)
(***************************************************************************)
LAMBDA_QUALIFIED ==
    <<"arn", ":", "aws", ":", "lambda", ":", "us-east-1", ":", "123456789012", ":",
      "function", ":", "my_function", ":", "1">>

\* a Lambda function ARN without the alias or version suffix
LAMBDA_UNQUALIFIED == SubSeq(LAMBDA_QUALIFIED, 1, 13)

\* a thing ARN whose thing name has an underscore
THING_UNDERSCORE == SubSeq(THING_FOO, 1, 12) \o <<"my_function">>

\* the sources and targets the claim allows, and some it does not
AllowedEndpoints == {<<"cloud">>, <<"GGShadowService">>, THING_FOO, LAMBDA_QUALIFIED}

RefusedEndpoints == {NOT_A_TARGET, LAMBDA_UNQUALIFIED, THING_UNDERSCORE, <<"">>}

SubscriptionInputs ==
    {[Id |-> id, Source |-> s, Target |-> g] :
        id \in {"s1"}, s \in AllowedEndpoints \cup RefusedEndpoints,
        g \in AllowedEndpoints \cup RefusedEndpoints}

\* payloads of up to two subscriptions; the second one has Id "s2"
SubscriptionPayloads ==
    {<<>>} \cup {<<a>> : a \in SubscriptionInputs}
           \cup {<<a, [b EXCEPT !.Id = "s2"]>> :
                     a \in SubscriptionInputs,
                     b \in {c \in SubscriptionInputs :
                               /\ c.Source \in {<<"cloud">>, LAMBDA_UNQUALIFIED}
                               /\ c.Target \in {THING_FOO, NOT_A_TARGET}}}

\* the calls on subscription definitions
NextSubscriptions ==
    \/ CreateSubscriptionDefinition
    \/ CreateSubscriptionDefinitionVersion
    \/ GetSubscriptionDefinition
    \/ UpdateSubscriptionDefinition
    \/ DeleteSubscriptionDefinition

SpecSubscriptions == Init /\ [][NextSubscriptions]_vars

\* every refused Source and Target of a payload, with the Id of its subscription
RefusedOf(subscriptions) ==
    {[what |-> "source", Id |-> subscriptions[i].Id, value |-> subscriptions[i].Source] :
        i \in {j \in DOMAIN subscriptions : subscriptions[j].Source \in RefusedEndpoints}}
    \cup
    {[what |-> "target", Id |-> subscriptions[i].Id, value |-> subscriptions[i].Target] :
        i \in {j \in DOMAIN subscriptions : subscriptions[j].Target \in RefusedEndpoints}}

\* the outcome o of a create call given the payload is the claimed one
SubscriptionVerdict(o, subscriptions) ==
    IF RefusedOf(subscriptions) = {}
    THEN o.res # "GreengrassClientError"
    ELSE /\ o.res = "GreengrassClientError"
         /\ {o.ret[i] : i \in DOMAIN o.ret} = RefusedOf(subscriptions)
         /\ Len(o.ret) = Cardinality(RefusedOf(subscriptions))

(***************************************************************************)
(* C23: create_subscription_definition and                                 *)
(* create_subscription_definition_version accept a payload only if every   *)
(* subscription's Source and Target is "cloud", "GGShadowService", an IoT  *)
(* thing ARN or a Lambda function ARN with an alias or version suffix;     *)
(* otherwise they fail with one error that lists every invalid Source and  *)
(* every invalid Target of every subscription, each with the Id of its     *)
(* subscription, and the stores are left as they were.                     *)
(***************************************************************************)
C23_SubscriptionValidation ==
    \A subscriptions \in SubscriptionPayloads :
        /\ \A id \in IdInputs(subscription_definitions, subscription_definition_versions) :
               LET o == create_subscription_definition_version(
                            subscription_definitions, subscription_definition_versions,
                            uuid_count, id, subscriptions)
               IN  /\ SubscriptionVerdict(o, subscriptions)
                   /\ o.res = "ok" => RefusedOf(subscriptions) = {}
                   /\ o.res = "GreengrassClientError" =>
                          /\ o.defs = subscription_definitions
                          /\ o.vers = subscription_definition_versions
        /\ LET o == create_subscription_definition(
                        subscription_definitions, subscription_definition_versions,
                        uuid_count, "n1", {<<"Subscriptions", subscriptions>>})
           IN  /\ SubscriptionVerdict(o, subscriptions)
               /\ RefusedOf(subscriptions) = {} => o.res = "ok"
               /\ o.res = "GreengrassClientError" =>
                      /\ o.defs = subscription_definitions
                      /\ o.vers = subscription_definition_versions

\* a payload of two subscriptions, one with a refused Source and one with a
\* refused Target, was turned down with both listed
C23_Witness ==
    /\ last.op = "create_subscription_definition_version"
    /\ last.res = "GreengrassClientError"
    /\ Len(last.args) = 2
    /\ {last.ret[i] : i \in DOMAIN last.ret} = RefusedOf(last.args)
    /\ Cardinality(RefusedOf(last.args)) = 2
    /\ OD_Has(subscription_definitions, last.id)

(***************************************************************************)
(* Source paths of resources.                                              *)
(***************************************************************************)
\* the calls on resource definitions
NextResources ==
    \/ CreateResourceDefinition
    \/ CreateResourceDefinitionVersion
    \/ GetResourceDefinition
    \/ UpdateResourceDefinition
    \/ DeleteResourceDefinition

SpecResources == Init /\ [][NextResources]_vars

\* local-volume paths that are "/sys" or lie under "/sys/", and some that do not
PathsUnderSys == {PATH_SYS, PATH_SYS_SLASH, PATH_SYS_SLASH \o <<"f", "s">>}

PathsNotUnderSys == {PATH_SYSTEM, PATH_TMP, PATH_DEV_NULL, EmptyString, <<"s", "y", "s">>}

\* local-device paths that start with "/dev", and some that do not
PathsFromDev == {PATH_DEV, PATH_DEV_NULL, PATH_DEV \o <<"i", "c", "e">>}

PathsNotFromDev == {PATH_TMP, PATH_SYS, EmptyString, <<"d", "e", "v">>, <<"/", "d", "e">>}

\* a resource with both kinds of resource data
LocalVolumeAndDeviceResource(volume_path, device_path) ==
    {<<"ResourceDataContainer",
       {<<"LocalVolumeResourceData", {<<"SourcePath", volume_path>>}>>,
        <<"LocalDeviceResourceData", {<<"SourcePath", device_path>>}>>}>>}

ResourceInputs ==
    {LocalVolumeResource(p) : p \in PathsUnderSys \cup PathsNotUnderSys}
    \cup {LocalDeviceResource(p) : p \in PathsFromDev \cup PathsNotFromDev}
    \cup {LocalVolumeAndDeviceResource(p, q) :
             p \in {PATH_SYS, PATH_SYSTEM}, q \in {PATH_DEV_NULL, PATH_TMP}}
    \cup {{}, {<<"ResourceDataContainer", {}>>},
          {<<"ResourceDataContainer", {<<"LocalDeviceResourceData", {}>>}>>}}

ResourcePayloads ==
    {<<>>} \cup {<<a>> : a \in ResourceInputs}
           \cup {<<a, b>> : a, b \in ResourceInputs}

\* the resource data of one kind in a resource, {} when it has none
ResourceDataOf(resource, data_kind) ==
    DictGetOr(DictGetOr(resource, "ResourceDataContainer", {}), data_kind, {})

\* the payload is one the claim says is rejected
RejectedResources(resources) ==
    \E i \in DOMAIN resources :
        \/ /\ ResourceDataOf(resources[i], "LocalVolumeResourceData") # {}
           /\ DictGet(ResourceDataOf(resources[i], "LocalVolumeResourceData"),
                      "SourcePath") \in PathsUnderSys
        \/ /\ ResourceDataOf(resources[i], "LocalDeviceResourceData") # {}
           /\ DictGet(ResourceDataOf(resources[i], "LocalDeviceResourceData"),
                      "SourcePath") \in PathsNotFromDev

(***************************************************************************)
(* C24: create_resource_definition, and create_resource_definition_version *)
(* on a stored definition, reject the payload exactly when some resource   *)
(* has a local-volume SourcePath equal to "/sys" or starting with "/sys/", *)
(* or has local-device resource data whose SourcePath does not start with  *)
(* "/dev"; every other payload, a local-volume path "/system" among them,  *)
(* is accepted.                                                            *)
(***************************************************************************)
C24_ResourceValidation ==
    \A resources \in ResourcePayloads :
        /\ \A id \in OD_Keys(resource_definitions) :
               create_resource_definition_version(
                   resource_definitions, resource_definition_versions,
                   uuid_count, id, resources).res
               = IF RejectedResources(resources) THEN "GreengrassClientError" ELSE "ok"
        /\ create_resource_definition(
               resource_definitions, resource_definition_versions,
               uuid_count, "n1", {<<"Resources", resources>>}).res
           = IF RejectedResources(resources) THEN "GreengrassClientError" ELSE "ok"

\* a version whose only resource is the local volume "/system" was stored
C24_Witness ==
    /\ last.op = "create_resource_definition_version"
    /\ last.res = "ok"
    /\ last.args = <<LocalVolumeResource(PATH_SYSTEM)>>
    /\ OD_Get(OD_Get(resource_definition_versions, last.id), last.ret.version).resources
       = last.args

(***************************************************************************)
(* Tags.  The tag store maps an ARN to its key/value pairs.                *)
(***************************************************************************)
\* TaggingService.get_tag_dict_for_resource: the pairs recorded for the ARN,
\* an empty mapping when none are
TaggingService_get_tag_dict_for_resource(tags_by_arn, arn) ==
    IF OD_Has(tags_by_arn, arn) THEN OD_Get(tags_by_arn, arn) ELSE {}

\* TaggingService.untag_resource_using_names: the named keys are removed
\* from the pairs recorded for the ARN
TaggingService_untag_resource_using_names(tags_by_arn, arn, tag_names) ==
    IF OD_Has(tags_by_arn, arn)
    THEN OD_Set(tags_by_arn, arn, {p \in OD_Get(tags_by_arn, arn) : p[1] \notin tag_names})
    ELSE tags_by_arn

get_tags(g, resource_id) ==
    GlueOutcome(g, "ok", TaggingService_get_tag_dict_for_resource(g.tagger, resource_id))

untag_resource(g, resource_arn, tag_keys) ==
    GlueOutcome([g EXCEPT !.tagger =
                     TaggingService_untag_resource_using_names(@, resource_arn, tag_keys)],
                "ok", None)

\* ARNs a caller may pass: of the crawler and the job that the calls create
\* and of a crawler that is never created
ArnInputs ==
    {GlueArn("crawler", "c1"), GlueArn("job", "j1"), GlueArn("crawler", UnknownCrawler)}

\* tags a caller may pass to tag_resource
TagUpdates == {{<<"k", "v1">>}, {<<"k", "v2">>, <<"k2", "w">>}}

TagKeyInputs == {{"k"}, {"k2", "zz"}}

TagResource ==
    \E resource_arn \in ArnInputs, tags \in TagUpdates :
        ApplyGlue("tag_resource", resource_arn, tags,
                  GlueOutcome(tag_resource(Glue, resource_arn, tags), "ok", None), 1)

UntagResource ==
    \E resource_arn \in ArnInputs, tag_keys \in TagKeyInputs :
        ApplyGlue("untag_resource", resource_arn, tag_keys,
                  untag_resource(Glue, resource_arn, tag_keys), 1)

GetTags ==
    \E resource_id \in ArnInputs :
        ApplyGlue("get_tags", resource_id, None, get_tags(Glue, resource_id), 0)

\* crawlers and jobs with the calls on their tags
NextTags ==
    \/ CreateCrawler
    \/ DeleteCrawler
    \/ CreateJob
    \/ TagResource
    \/ UntagResource
    \/ GetTags

SpecTags == Init /\ [][NextTags]_vars

(***************************************************************************)
(* C25: deleting a resource does not change the tag store: after           *)
(* delete_crawler(name), get_tags on that crawler's ARN, and on any other  *)
(* ARN, returns the same mapping as immediately before the delete.         *)
(***************************************************************************)
C25_DeleteKeepsTags ==
    \A name \in CrawlerNames \cup {UnknownCrawler} :
        LET o == delete_crawler(Glue, name)
        IN  /\ o.g.tagger = tagger
            /\ \A arn \in ArnInputs :
                   get_tags(o.g, arn).ret = get_tags(Glue, arn).ret

\* a crawler was deleted and its ARN still has the tags it had
C25_Witness ==
    /\ last.op = "delete_crawler"
    /\ last.res = "ok"
    /\ ~OD_Has(crawlers, last.id)
    /\ get_tags(Glue, GlueArn("crawler", last.id)).ret # {}

\* the value recorded for a key in a mapping of tags
TagValues(tags, key) == {p[2] : p \in {q \in tags : q[1] = key}}

TagKeys(tags) == {p[1] : p \in tags}

(***************************************************************************)
(* C26: tag_resource(arn, tags) sets the value of every given key and      *)
(* keeps every other key already recorded for that ARN, for any ARN,       *)
(* whether or not it names a live resource; untag_resource removes only    *)
(* the named keys and is a no-op without error for keys that are not       *)
(* recorded; get_tags of an ARN with no recorded tags returns an empty     *)
(* mapping.  Neither call changes the tags of another ARN.                 *)
(***************************************************************************)
C26_TagUntagGet ==
    \A arn \in ArnInputs :
        LET before == get_tags(Glue, arn).ret
        IN  /\ get_tags(Glue, arn).res = "ok"
            /\ ~OD_Has(tagger, arn) => before = {}
            /\ \A tags \in TagUpdates \cup TagInputs :
                   LET g1 == tag_resource(Glue, arn, tags)
                       after == get_tags(g1, arn).ret
                   IN  /\ tags \subseteq after
                       /\ \A key \in TagKeys(tags) : Cardinality(TagValues(after, key)) = 1
                       /\ \A p \in before : p[1] \notin TagKeys(tags) => p \in after
                       /\ TagKeys(after) = TagKeys(before) \cup TagKeys(tags)
                       /\ \A other \in ArnInputs \ {arn} :
                              get_tags(g1, other).ret = get_tags(Glue, other).ret
            /\ \A tag_keys \in TagKeyInputs \cup {{}} :
                   LET o == untag_resource(Glue, arn, tag_keys)
                       after == get_tags(o.g, arn).ret
                   IN  /\ o.res = "ok"
                       /\ after = {p \in before : p[1] \notin tag_keys}
                       /\ \A other \in ArnInputs \ {arn} :
                              get_tags(o.g, other).ret = get_tags(Glue, other).ret

\* the ARN of a crawler that was never created had a tag "k" overwritten and
\* kept its tag "k2"
C26_Witness ==
    /\ last.op = "tag_resource"
    /\ last.id = GlueArn("crawler", UnknownCrawler)
    /\ last.args = {<<"k", "v1">>}
    /\ get_tags(Glue, last.id).ret = {<<"k", "v1">>, <<"k2", "w">>}

(***************************************************************************)
(* C27: after a successful create_crawler or create_job with tags T,       *)
(* get_tags on the new resource's ARN contains every key/value pair of T;  *)
(* a create_crawler that fails with AlreadyExists leaves the tag store     *)
(* unchanged.                                                              *)
(***************************************************************************)
C27_CreateTags ==
    \A fields \in FieldInputs, tags \in TagInputs \cup TagUpdates :
        /\ \A name \in CrawlerNames :
               LET o == create_crawler(Glue, name, fields, tags)
               IN  /\ o.res \in {"ok", "CrawlerAlreadyExistsException"}
                   /\ o.res = "ok" =>
                          tags \subseteq get_tags(o.g, GlueArn("crawler", name)).ret
                   /\ o.res = "CrawlerAlreadyExistsException" => o.g.tagger = tagger
        /\ \A name \in JobNames :
               LET o == create_job(Glue, name, fields, tags)
               IN  /\ o.res = "ok"
                   /\ tags \subseteq get_tags(o.g, GlueArn("job", name)).ret

\* a create_crawler with a tag failed with AlreadyExists and the ARN of the
\* stored crawler has no tags
C27_Witness ==
    /\ last.op = "create_crawler"
    /\ last.res = "CrawlerAlreadyExistsException"
    /\ last.args[2] = {<<"k", "v1">>}
    /\ OD_Has(crawlers, last.id)
    /\ get_tags(Glue, GlueArn("crawler", last.id)).ret = {}

(***************************************************************************)
(* Pagination of list_crawlers and list_jobs.  The decorator is given the  *)
(* full listing, a continuation token (None on the first call) and a page  *)
(* size (None for the default); it returns a page and the token of the     *)
(* next call, None when the listing is exhausted.  The token holds the     *)
(* name (the unique attribute) of the last item of the page; a page size   *)
(* is <<m>> and the default is asked for with <<>>.                        *)
(***************************************************************************)
MaxItems == 3

MaxPageSize == 3

limit_default == 100

Min(a, b) == IF a <= b THEN a ELSE b

PageOutcome(g, res, page, token) ==
    GlueOutcome(g, res, [page |-> page, next_token |-> token])

paginate(g, results, next_token, max_results) ==
    LET limit == IF max_results = <<>> THEN limit_default ELSE max_results[1]
        known == next_token = None \/ \E i \in DOMAIN results : <<results[i].name>> = next_token
        first == IF next_token = None THEN 1
                 ELSE (CHOOSE i \in DOMAIN results : <<results[i].name>> = next_token) + 1
        end == Min(first + limit - 1, Len(results))
    IN  IF ~known
        THEN GlueOutcome(g, "InvalidToken", None)
        ELSE PageOutcome(g, "ok", SubSeq(results, first, end),
                         IF end < Len(results) THEN <<results[end].name>> ELSE None)

\* list_crawlers and list_jobs as a caller sees them
list_crawlers_page(g, next_token, max_results) ==
    paginate(g, list_crawlers(g).ret, next_token, max_results)

list_jobs_page(g, next_token, max_results) ==
    paginate(g, list_jobs(g).ret, next_token, max_results)

ItemNames(prefix) == {prefix \o ToString(i) : i \in 1..MaxItems}

\* the orders in which some of the names can be created
RECURSIVE CreationOrders(_)
CreationOrders(names) ==
    {<<>>} \cup UNION {{<<n>> \o rest : rest \in CreationOrders(names \ {n})} : n \in names}

RECURSIVE CreateCrawlers(_, _)
CreateCrawlers(g, names) ==
    IF names = <<>> THEN g
    ELSE CreateCrawlers(create_crawler(g, Head(names), [role |-> "r1"], {}).g, Tail(names))

RECURSIVE CreateJobs(_, _)
CreateJobs(g, names) ==
    IF names = <<>> THEN g
    ELSE CreateJobs(create_job(g, Head(names), [role |-> "r1"], {}).g, Tail(names))

PageTokens(prefix) == {<<name>> : name \in ItemNames(prefix)} \cup {None}

PageSizes == {<<m>> : m \in 1..MaxPageSize} \cup {<<>>}

ListCrawlersPage ==
    \E next_token \in PageTokens("c"), max_results \in PageSizes :
        ApplyGlue("list_crawlers", next_token, max_results,
                  list_crawlers_page(Glue, next_token, max_results), 0)

ListJobsPage ==
    \E next_token \in PageTokens("j"), max_results \in PageSizes :
        ApplyGlue("list_jobs", next_token, max_results,
                  list_jobs_page(Glue, next_token, max_results), 0)

\* a backend after some crawlers and some jobs were created
InitPages ==
    /\ InitGreengrass
    /\ \E cs \in CreationOrders(ItemNames("c")), js \in CreationOrders(ItemNames("j")) :
           LET g == CreateJobs(CreateCrawlers(
                        [databases |-> OD_Empty, crawlers |-> OD_Empty,
                         jobs |-> OD_Empty, tagger |-> OD_Empty], cs), js)
           IN  /\ databases = g.databases
               /\ crawlers = g.crawlers
               /\ jobs = g.jobs
               /\ tagger = g.tagger
    /\ glue_ops = 0
    /\ callers = NoCallers
    /\ registries = OD_Empty
    /\ last = NoCall

NextPages ==
    \/ ListCrawlersPage
    \/ ListJobsPage
    \/ DeleteCrawler

SpecPages == InitPages /\ [][NextPages]_vars

\* the pages a caller gets who passes each returned token to the next call,
\* at most `calls` of them; <<>> stands for a call that failed
RECURSIVE CrawlerPages(_, _, _, _)
CrawlerPages(g, next_token, max_results, calls) ==
    LET o == list_crawlers_page(g, next_token, max_results)
    IN  IF calls = 0 \/ o.res # "ok" THEN <<>>
        ELSE IF o.ret.next_token = None THEN <<o.ret>>
        ELSE <<o.ret>> \o CrawlerPages(g, o.ret.next_token, max_results, calls - 1)

RECURSIVE JobPages(_, _, _, _)
JobPages(g, next_token, max_results, calls) ==
    LET o == list_jobs_page(g, next_token, max_results)
    IN  IF calls = 0 \/ o.res # "ok" THEN <<>>
        ELSE IF o.ret.next_token = None THEN <<o.ret>>
        ELSE <<o.ret>> \o JobPages(g, o.ret.next_token, max_results, calls - 1)

RECURSIVE ConcatPages(_)
ConcatPages(pages) ==
    IF pages = <<>> THEN <<>> ELSE Head(pages).page \o ConcatPages(Tail(pages))

\* the pages are the listing cut into runs of m items
PagesOf(pages, listing, m) ==
    /\ pages # <<>>
    /\ ConcatPages(pages) = listing
    /\ \A i \in 1..(Len(pages) - 1) : Len(pages[i].page) = m
    /\ Len(pages[Len(pages)].page) <= m
    /\ pages[Len(pages)].next_token = None
    /\ Len(pages) = IF listing = <<>> THEN 1 ELSE (Len(listing) + m - 1) \div m

(***************************************************************************)
(* C28: for any number of crawlers (or jobs) and any page size m >= 1,     *)
(* calling list_crawlers (list_jobs) repeatedly with the returned          *)
(* continuation token yields pages whose concatenation is exactly the full *)
(* listing in creation order, each item exactly once, every page of size m *)
(* except possibly the last, and no token after the last page.             *)
(***************************************************************************)
C28_Pagination ==
    \A m \in 1..MaxPageSize :
        /\ PagesOf(CrawlerPages(Glue, None, <<m>>, Len(crawlers) + 1),
                   OD_Values(crawlers), m)
        /\ PagesOf(JobPages(Glue, None, <<m>>, Len(jobs) + 1), OD_Values(jobs), m)

\* the second call for three crawlers with page size two returned the last
\* crawler and no token
C28_Witness ==
    /\ last.op = "list_crawlers"
    /\ last.res = "ok"
    /\ Len(crawlers) = 3
    /\ last.args = <<2>>
    /\ last.id = <<crawlers[2][1]>>
    /\ last.ret.page = <<crawlers[3][2]>>
    /\ last.ret.next_token = None

(***************************************************************************)
(* create_table run by two callers at once.  The method takes no lock:     *)
(* between the look-up of the database, the test of the name and the       *)
(* assignment to database.tables another caller's statements may run.      *)
(***************************************************************************)
SetCaller(c, at, res) == [callers EXCEPT ![c].at = at, ![c].res = res]

\* the record of the call that caller c completes with the outcome o
CallOf(c, o) ==
    Call("create_table", <<callers[c].database_name, callers[c].table_name>>,
         callers[c].table_input, o)

\* database = self.get_database(database_name)
CreateTableBegin(c) ==
    \E database_name \in DatabaseNames, table_name \in TableNames,
       table_input \in TableInputs :
        LET d == get_database(Glue, database_name)
        IN  /\ callers[c].at = "idle"
            /\ callers' = [callers EXCEPT ![c] =
                              [at |-> IF d.res = "ok" THEN "test" ELSE "done",
                               database_name |-> database_name,
                               table_name |-> table_name,
                               table_input |-> table_input,
                               res |-> IF d.res = "ok" THEN "" ELSE d.res]]
            /\ last' = IF d.res = "ok" THEN last
                       ELSE Call("create_table", <<database_name, table_name>>,
                                 table_input, d)
            /\ UNCHANGED <<ggVars, databases, crawlers, jobs, tagger, registries, glue_ops>>

\* if table_name in database.tables: raise TableAlreadyExistsException()
CreateTableTest(c) ==
    /\ callers[c].at = "test"
    /\ IF OD_Has(OD_Get(databases, callers[c].database_name).tables,
                 callers[c].table_name)
       THEN /\ callers' = SetCaller(c, "done", "TableAlreadyExistsException")
            /\ last' = CallOf(c, GlueOutcome(Glue, "TableAlreadyExistsException", None))
       ELSE /\ callers' = SetCaller(c, "store", "")
            /\ last' = last
    /\ UNCHANGED <<ggVars, databases, crawlers, jobs, tagger, registries, glue_ops>>

\* table = FakeTable(...); database.tables[table_name] = table; return table
CreateTableStore(c) ==
    /\ callers[c].at = "store"
    /\ databases' =
           SetTables(Glue, callers[c].database_name,
                     OD_Set(OD_Get(databases, callers[c].database_name).tables,
                            callers[c].table_name,
                            FakeTable(callers[c].database_name, callers[c].table_name,
                                      callers[c].table_input))).databases
    /\ callers' = SetCaller(c, "done", "ok")
    /\ last' = CallOf(c, GlueOutcome(Glue, "ok",
                                     FakeTable(callers[c].database_name,
                                               callers[c].table_name,
                                               callers[c].table_input)))
    /\ UNCHANGED <<ggVars, crawlers, jobs, tagger, registries, glue_ops>>

\* a backend with the database "db1" and with or without "db2"
InitConcurrent ==
    /\ InitGreengrass
    /\ \E names \in {<<"db1">>, <<"db1", "db2">>} :
           LET g0 == [databases |-> OD_Empty, crawlers |-> OD_Empty,
                      jobs |-> OD_Empty, tagger |-> OD_Empty]
               g1 == create_database(g0, names[1], {}).g
           IN  databases = IF Len(names) = 1 THEN g1.databases
                           ELSE create_database(g1, names[2], {}).g.databases
    /\ crawlers = OD_Empty
    /\ jobs = OD_Empty
    /\ tagger = OD_Empty
    /\ glue_ops = 0
    /\ callers = NoCallers
    /\ registries = OD_Empty
    /\ last = NoCall

NextConcurrent ==
    \/ \E c \in CallerIds : CreateTableBegin(c)
    \/ \E c \in CallerIds : CreateTableTest(c)
    \/ \E c \in CallerIds : CreateTableStore(c)

SpecConcurrent == InitConcurrent /\ [][NextConcurrent]_vars

\* the callers whose create_table returned a table
Winners == {c \in CallerIds : callers[c].at = "done" /\ callers[c].res = "ok"}

(***************************************************************************)
(* C29: when two callers run create_table for the same database and the    *)
(* same table name at once, at most one of the two calls succeeds, the     *)
(* other fails with AlreadyExists, and the table store ends with exactly   *)
(* one table of that name, holding the winner's content.                   *)
(***************************************************************************)
C29_ConcurrentCreateTable ==
    \A c, d \in CallerIds :
        /\ c # d
        /\ callers[c].at = "done"
        /\ callers[d].at = "done"
        /\ callers[c].database_name = callers[d].database_name
        /\ callers[c].table_name = callers[d].table_name
        /\ OD_Has(databases, callers[c].database_name)
        =>
        /\ Cardinality(Winners) = 1
        /\ \A w \in Winners :
               /\ \A l \in CallerIds \ {w} : callers[l].res = "TableAlreadyExistsException"
               /\ LET tables == OD_Get(databases, callers[w].database_name).tables
                  IN  /\ Len(tables) = 1
                      /\ OD_Get(tables, callers[w].table_name)
                         = FakeTable(callers[w].database_name, callers[w].table_name,
                                     callers[w].table_input)

(***************************************************************************)
(* Regions.  greengrass_backends holds one GreengrassBackend for each      *)
(* region; a caller takes the backend of a region from it and calls the    *)
(* methods of that backend.  glue_backends holds the one backend "global". *)
(***************************************************************************)
greengrass_backends_shared == [r \in RegionNames |-> GreengrassStores]

\* the stores of the backend of each region
greengrass_backends ==
    [r \in RegionNames |-> IF r = region_name THEN GreengrassStores ELSE others[r]]

\* greengrass_backends[r]: the calls that follow are made on the backend of r
SelectRegion ==
    \E r \in RegionNames \ {region_name} :
        LET backend == greengrass_backends[r]
        IN  /\ region_name' = r
            /\ others' = [x \in RegionNames \ {r} |-> greengrass_backends[x]]
            /\ groups' = backend[1][1]
            /\ group_versions' = backend[1][2]
            /\ core_definitions' = backend[2][1]
            /\ core_definition_versions' = backend[2][2]
            /\ device_definitions' = backend[3][1]
            /\ device_definition_versions' = backend[3][2]
            /\ function_definitions' = backend[4][1]
            /\ function_definition_versions' = backend[4][2]
            /\ resource_definitions' = backend[5][1]
            /\ resource_definition_versions' = backend[5][2]
            /\ subscription_definitions' = backend[6][1]
            /\ subscription_definition_versions' = backend[6][2]
            /\ UNCHANGED <<uuid_count, glueVars, last>>

\* core definitions and resource definitions in two regions
NextRegions ==
    \/ CreateCoreDefinition
    \/ CreateCoreDefinitionVersion
    \/ DeleteCoreDefinition
    \/ CreateResourceDefinition
    \/ CreateResourceDefinitionVersion
    \/ DeleteResourceDefinition
    \/ SelectRegion

SpecRegions == Init /\ [][NextRegions]_vars

\* a step leaves the backend of every region but the caller's as it was
C30_OtherRegionsKept ==
    \A r \in RegionNames \ {region_name} : greengrass_backends'[r] = greengrass_backends[r]

MaxRegistryOps == 2

max_registry_name_length == 255

max_registries_allowed == 10

max_description_length == 2048

max_tags_allowed == 50

AsciiLower == {"a", "b", "c", "d", "e", "f", "g", "h", "i", "j", "k", "l", "m",
               "n", "o", "p", "q", "r", "s", "t", "u", "v", "w", "x", "y", "z"}

AsciiUpper == {"A", "B", "C", "D", "E", "F", "G", "H", "I", "J", "K", "L", "M",
               "N", "O", "P", "Q", "R", "S", "T", "U", "V", "W", "X", "Y", "Z"}

AsciiDigits == {"0", "1", "2", "3", "4", "5", "6", "7", "8", "9"}

\* the character class of r"^[a-zA-Z0-9-_$#.]+$"
registry_name_class == AsciiLower \cup AsciiUpper \cup AsciiDigits \cup {"-", "_", "$", "#", "."}

\* re.match(registry_name_pattern, registry_name) is not None: one or more
\* characters of the class, up to the end of the string or up to a newline
\* that ends the string
registry_name_pattern(registry_name) ==
    LET n == Len(registry_name)
        body == IF n > 0 /\ registry_name[n] = "\n"
                THEN SubSeq(registry_name, 1, n - 1) ELSE registry_name
    IN  /\ body # <<>>
        /\ \A i \in DOMAIN body : body[i] \in registry_name_class

\* len(s.encode("utf-8")): the characters outside ASCII that the inputs use
\* take two bytes
Utf8Len(s) == Len(s) + Cardinality({i \in DOMAIN s : s[i] = "e-acute"})

\* re.match(registry_description_pattern, description) is None: the pattern
\* is one character class under *, which matches the empty prefix of every
\* string, so the match is never None
registry_description_mismatch(description) == FALSE

RegistryOutcome(regs, res, ret) == [registries |-> regs, res |-> res, ret |-> ret]

FakeRegistry(registry_name, description, tags) ==
    [name |-> registry_name, description |-> description, tags |-> tags,
     registry_arn |-> GlueArn("registry", registry_name)]

\* the limit test moved behind the test for a name already registered
create_registry_limit_late(regs, registry_name, description, tags) ==
    LET raise(e) == RegistryOutcome(regs, e, None)
    IN  IF registry_name = <<>> \/ Utf8Len(registry_name) > max_registry_name_length
        THEN raise("ResourceNameTooLongException")
        ELSE IF ~registry_name_pattern(registry_name)
        THEN raise("ParamValueContainsInvalidCharactersException")
        ELSE IF OD_Has(regs, registry_name)
        THEN raise("GSRAlreadyExistsException")
        ELSE IF Len(regs) >= max_registries_allowed
        THEN raise("ResourceNumberLimitExceededException")
        ELSE IF description # None /\ description # <<>>
                /\ Utf8Len(description) > max_description_length
        THEN raise("ResourceNameTooLongException")
        ELSE IF tags # {} /\ Cardinality(tags) > max_tags_allowed
        THEN raise("InvalidNumberOfTagsException")
        ELSE LET registry == FakeRegistry(registry_name, description, tags)
             IN  RegistryOutcome(OD_Set(regs, registry_name, registry), "ok", registry)

create_registry(regs, registry_name, description, tags) ==
    LET raise(e) == RegistryOutcome(regs, e, None)
    IN  IF Len(regs) >= max_registries_allowed
        THEN raise("ResourceNumberLimitExceededException")
        ELSE IF registry_name = <<>> \/ Utf8Len(registry_name) > max_registry_name_length
        THEN raise("ResourceNameTooLongException")
        ELSE IF ~registry_name_pattern(registry_name)
        THEN raise("ParamValueContainsInvalidCharactersException")
        ELSE IF OD_Has(regs, registry_name)
        THEN raise("GSRAlreadyExistsException")
        ELSE IF description # None /\ description # <<>>
                /\ Utf8Len(description) > max_description_length
        THEN raise("ResourceNameTooLongException")
        ELSE IF description # None /\ description # <<>>
                /\ registry_description_mismatch(description)
        THEN raise("ParamValueContainsInvalidCharactersException")
        ELSE IF tags # {} /\ Cardinality(tags) > max_tags_allowed
        THEN raise("InvalidNumberOfTagsException")
        ELSE LET registry == FakeRegistry(registry_name, description, tags)
             IN  RegistryOutcome(OD_Set(regs, registry_name, registry), "ok", registry)

\* the name "r<i>" for i in 1..19
RegistryName(i) ==
    IF i < 10 THEN <<"r", ToString(i)>> ELSE <<"r", "1", ToString(i - 10)>>

\* names: empty, of 256 bytes in 256 and in 128 characters, with a space,
\* ending in a newline, and the well-formed r1 and r11
RegistryNameInputs ==
    {<<>>, [i \in 1..(max_registry_name_length + 1) |-> "a"],
     [i \in 1..128 |-> "e-acute"], <<"r", " ", "1">>, <<"r", "1", "\n">>}
    \cup {RegistryName(i) : i \in {1, 11}}

DescriptionInputs == {None, <<"d">>, [i \in 1..(max_description_length + 1) |-> "d"]}

RegistryTagInputs ==
    {{}, {<<"k", "v1">>}, {<<ToString(i), "v">> : i \in 1..(max_tags_allowed + 1)}}

\* the store after create_registry was called for r1 .. r<n>
RECURSIVE CreateRegistries(_)
CreateRegistries(n) ==
    IF n = 0 THEN OD_Empty
    ELSE create_registry(CreateRegistries(n - 1), RegistryName(n), None, {}).registries

CreateRegistry ==
    \E registry_name \in RegistryNameInputs, description \in DescriptionInputs,
       tags \in RegistryTagInputs :
        LET o == create_registry(registries, registry_name, description, tags)
        IN  /\ glue_ops < MaxRegistryOps
            /\ registries' = o.registries
            /\ glue_ops' = glue_ops + 1
            /\ last' = Call("create_registry", registry_name,
                            [description |-> description, tags |-> tags], o)
            /\ UNCHANGED <<ggVars, databases, crawlers, jobs, tagger, callers>>

\* a backend in which some registries were created
InitRegistries ==
    /\ InitGreengrass
    /\ databases = OD_Empty
    /\ crawlers = OD_Empty
    /\ jobs = OD_Empty
    /\ tagger = OD_Empty
    /\ glue_ops = 0
    /\ callers = NoCallers
    /\ \E n \in 0..max_registries_allowed : registries = CreateRegistries(n)
    /\ last = NoCall

NextRegistries == CreateRegistry

SpecRegistries == InitRegistries /\ [][NextRegistries]_vars

(***************************************************************************)
(* C31: a backend never holds more than 10 registries; with 10 registries  *)
(* stored, create_registry raises the resource-number-limit error whatever *)
(* its arguments are, a duplicate or malformed name included; and a        *)
(* create_registry that raises leaves the registry store as it was.        *)
(***************************************************************************)
C31_RegistryLimit ==
    /\ Len(registries) <= max_registries_allowed
    /\ \A registry_name \in RegistryNameInputs, description \in DescriptionInputs,
          tags \in RegistryTagInputs :
           LET o == create_registry(registries, registry_name, description, tags)
           IN  /\ Len(registries) >= max_registries_allowed
                   => o.res = "ResourceNumberLimitExceededException"
               /\ o.res # "ok" => o.registries = registries
               /\ o.res = "ok" => Len(o.registries) = Len(registries) + 1

\* the tenth registry was stored by the last call, and a call with a name
\* that is registered would now be refused for the limit
C31_Witness ==
    /\ last.op = "create_registry"
    /\ last.res = "ok"
    /\ Len(registries) = max_registries_allowed
    /\ OD_Has(registries, RegistryName(1))
    /\ create_registry(registries, RegistryName(1), None, {}).res
           = "ResourceNumberLimitExceededException"

(***************************************************************************)
(* ARNs.  The region of the glue backend: glue_backends has the single     *)
(* region "global" and glue_backend is glue_backends["global"].            *)
(***************************************************************************)
glue_region_name == "global"

\* arn:aws:<service>:<region>:<account-id>:<path>, the path being the
\* segments between slashes: the kind, the identifier and, for a version,
\* "versions" and the version id
ArnWithPath(service, region, path) ==
    <<<<"arn", "aws", service, region, ACCOUNT_ID, Head(path)>>>> \o Tail(path)

\* the <kind> of a greengrass ARN
KindPath(kind) ==
    IF kind = "groups" THEN <<"greengrass", "groups">>
    ELSE <<"greengrass", "definition", kind>>

\* every stored greengrass parent and version carries the ARN of its kind,
\* of the region of the backend, of the id it is stored under and, for a
\* version, of its parent's id and its own version id
GreengrassArns ==
    \A kind \in AllKinds :
        /\ \A i \in DOMAIN ParentsOf(kind) :
               ParentsOf(kind)[i][2].arn
                   = ArnWithPath("greengrass", region_name,
                                 KindPath(kind) \o <<ParentsOf(kind)[i][1]>>)
        /\ \A i \in DOMAIN VersionsOf(kind) :
               \A j \in DOMAIN VersionsOf(kind)[i][2] :
                   VersionsOf(kind)[i][2][j][2].arn
                       = ArnWithPath("greengrass", region_name,
                                     KindPath(kind) \o <<VersionsOf(kind)[i][1], "versions",
                                                         VersionsOf(kind)[i][2][j][1]>>)

\* every stored crawler, job and registry carries the ARN of its kind, of the
\* region of the backend and of the name it is stored under
GlueArns ==
    /\ \A i \in DOMAIN crawlers :
           crawlers[i][2].arn
               = ArnWithPath("glue", glue_region_name, <<"crawler", crawlers[i][1]>>)
    /\ \A i \in DOMAIN jobs :
           jobs[i][2].arn = ArnWithPath("glue", glue_region_name, <<"job", jobs[i][1]>>)
    /\ \A i \in DOMAIN registries :
           registries[i][2].registry_arn
               = ArnWithPath("glue", glue_region_name, <<"registry", registries[i][1]>>)

(***************************************************************************)
(* C32: every stored resource has an ARN of the form                       *)
(* arn:aws:<service>:<region>:<account-id>:<kind>/<identifier>             *)
(* [/versions/<version-id>] whose region is the region of the backend that *)
(* holds it: glue crawlers, jobs and registries, and greengrass            *)
(* definitions, groups and their versions, a version's ARN naming its      *)
(* parent's id and its own version id.                                     *)
(***************************************************************************)
C32_ArnForm == GreengrassArns /\ GlueArns

(***************************************************************************)
(* C33: for every stored table, every old_values and every partition       *)
(* input, an update_partition that fails with NotFound or AlreadyExists    *)
(* leaves the partitions of the table as they were; after a key-changing   *)
(* update that fails with AlreadyExists, the partition under old_values is *)
(* still returned by get_partition.                                        *)
(***************************************************************************)
C33_FailedUpdateKeepsPartitions ==
    \A table \in AllTables, partiton_input \in KeyedPartitionInputs :
        \A old_values \in PartitionValues \cup {<<>>} :
            LET o == FakeTable_update_partition(table, old_values, partiton_input)
            IN  /\ o.res \in {"PartitionNotFoundException",
                              "PartitionAlreadyExistsException"}
                       => o.table.partitions = table.partitions
                /\ o.res = "PartitionAlreadyExistsException"
                       => FakeTable_get_partition(o.table, old_values)
                              = FakeTable_get_partition(table, old_values)

list_group_versions(defs, vers, n, group_id) ==
    IF ~OD_Has(vers, group_id)
    THEN Outcome(defs, vers, n, "IdNotFoundException", None)
    ELSE Outcome(defs, vers, n, "ok", OD_Values(OD_Get(vers, group_id)))

\* the parent map and the version-collection map of a kind hold the same ids
\* and no version collection is empty
StoresAgree(kind) ==
    /\ OD_Keys(ParentsOf(kind)) = OD_Keys(VersionsOf(kind))
    /\ \A i \in DOMAIN VersionsOf(kind) : VersionsOf(kind)[i][2] # OD_Empty

(***************************************************************************)
(* C34: after every completed operation and for each of the six kinds, the *)
(* parent map and the version-collection map hold the same ids and every   *)
(* version collection is non-empty; so get_group succeeds on an id exactly *)
(* when list_group_versions does.                                          *)
(***************************************************************************)
C34_ParentsAndVersionsAgree ==
    /\ \A kind \in AllKinds : StoresAgree(kind)
    /\ \A group_id \in IdInputs(groups, group_versions) :
           get_group(groups, group_versions, uuid_count, group_id).res = "ok"
               <=> list_group_versions(groups, group_versions, uuid_count,
                                       group_id).res = "ok"

(***************************************************************************)
(* C35: in every reachable state, create_resource_definition with a        *)
(* payload that _validate_resources refuses and                            *)
(* create_subscription_definition with a payload that has a refused source *)
(* or target raise the validation error and leave the definition store and *)
(* the version store of their kind as they were.                           *)
(***************************************************************************)
C35_ValidationBeforeRegistration ==
    /\ \A name \in Names, initial_version \in ResourceInitialVersions :
           LET o == create_resource_definition(resource_definitions,
                                               resource_definition_versions,
                                               uuid_count, name, initial_version)
           IN  /\ RejectedResources(DictGetOr(initial_version, "Resources", <<>>))
                      => o.res = "GreengrassClientError"
               /\ o.res = "GreengrassClientError"
                      => /\ o.defs = resource_definitions
                         /\ o.vers = resource_definition_versions
    /\ \A name \in Names, initial_version \in SubscriptionInitialVersions :
           LET o == create_subscription_definition(subscription_definitions,
                                                   subscription_definition_versions,
                                                   uuid_count, name, initial_version)
           IN  /\ RefusedOf(DictGet(initial_version, "Subscriptions")) # {}
                      => o.res = "GreengrassClientError"
               /\ o.res = "GreengrassClientError"
                      => /\ o.defs = subscription_definitions
                         /\ o.vers = subscription_definition_versions

\* a create_subscription_definition was refused on a backend that holds a
\* subscription definition, and a create_resource_definition would be
\* refused there too
C35_Witness ==
    /\ last.op = "create_subscription_definition"
    /\ last.res = "GreengrassClientError"
    /\ subscription_definitions # OD_Empty
    /\ \E initial_version \in ResourceInitialVersions :
           create_resource_definition(resource_definitions, resource_definition_versions,
                                      uuid_count, "n1", initial_version).res
               = "GreengrassClientError"

\* the stored versions of a kind: parent id, version id and the version
\* (its id, ARN and content)
VersionEntries(kind) ==
    {<<VersionsOf(kind)[i][1], VersionsOf(kind)[i][2][j][1], VersionsOf(kind)[i][2][j][2]>> :
        <<i, j>> \in {<<i, j>> \in (DOMAIN VersionsOf(kind)) \X (1..MaxUuid + 1) :
                         j \in DOMAIN VersionsOf(kind)[i][2]}}

\* a step adds no version but, after a successful create_<kind>_version, one
\* version with a new id under the named parent; it changes no stored
\* version; and it removes versions only of a parent that it deletes
C36_VersionStep ==
    \A kind \in AllKinds :
        LET added == VersionEntries(kind)' \ VersionEntries(kind)
            removed == VersionEntries(kind) \ VersionEntries(kind)'
        IN  /\ last'.op = CreateVersionOp(kind) /\ last'.res = "ok" =>
                /\ removed = {}
                /\ Cardinality(added) = 1
                /\ \A e \in added :
                       /\ e[1] = last'.id
                       /\ e[2] \notin {f[2] : f \in {g \in VersionEntries(kind) :
                                                        g[1] = e[1]}}
                /\ \A other \in AllKinds \ {kind} :
                       VersionEntries(other)' = VersionEntries(other)
            /\ removed # {} =>
                /\ last'.op = DeleteOp(kind)
                /\ last'.res = "ok"
                /\ OD_Has(ParentsOf(kind), last'.id)
                /\ ~OD_Has(ParentsOf(kind)', last'.id)
                /\ \A e \in removed : e[1] = last'.id

(***************************************************************************)
(* C36: versions are append-only.  A successful create_<kind>_version adds *)
(* exactly one version, with an id its parent did not have, to the         *)
(* collection of the named parent and leaves every version stored before   *)
(* (id, ARN, content), of every parent and kind, as it was; a version is   *)
(* removed only by the delete of its parent.                               *)
(***************************************************************************)
C36_VersionsAppendOnly == [][C36_VersionStep]_vars

\* the last call added a second version to a parent
C36_Witness ==
    \E kind \in AllKinds :
        /\ last.op = CreateVersionOp(kind)
        /\ last.res = "ok"
        /\ OD_Has(VersionsOf(kind), last.id)
        /\ Len(OD_Get(VersionsOf(kind), last.id)) >= 2

\* a step on a crawler that is stored before and after it: a crawler that is
\* not READY does not become READY, one that is RUNNING or STOPPING changes
\* only from RUNNING to STOPPING by stop_crawler and from STOPPING to RUNNING
\* by start_crawler, and start_crawler on a READY or STOPPING crawler
\* succeeds and leaves it RUNNING
C37_CrawlerStep ==
    \A name \in CrawlerNames :
        OD_Has(crawlers, name) /\ OD_Has(crawlers', name) =>
            LET before == OD_Get(crawlers, name).state
                after == OD_Get(crawlers', name).state
            IN  /\ before # "READY" => after # "READY"
                /\ before \in {"RUNNING", "STOPPING"} /\ after # before =>
                       \/ /\ before = "RUNNING"
                          /\ after = "STOPPING"
                          /\ last'.op = "stop_crawler"
                       \/ /\ before = "STOPPING"
                          /\ after = "RUNNING"
                          /\ last'.op = "start_crawler"
                /\ last'.op = "start_crawler" /\ last'.id = name
                   /\ before \in {"READY", "STOPPING"} =>
                       /\ last'.res = "ok"
                       /\ after = "RUNNING"

(***************************************************************************)
(* C37: no operation moves a stored crawler to READY.  Once started, a     *)
(* crawler that is not deleted only goes from RUNNING to STOPPING and from *)
(* STOPPING to RUNNING, and start_crawler succeeds on a STOPPING crawler   *)
(* as it does on a READY one.                                              *)
(***************************************************************************)
C37_NeverBackToReady == [][C37_CrawlerStep]_vars

\* a crawler that was started and stopped, on which start_crawler succeeds
C37_Witness ==
    /\ last.op = "stop_crawler"
    /\ last.res = "ok"
    /\ OD_Get(crawlers, last.id).state = "STOPPING"
    /\ start_crawler(Glue, last.id).res = "ok"
    /\ OD_Get(start_crawler(Glue, last.id).g.crawlers, last.id).state = "RUNNING"

\* a step on a stored job: a RUNNING job stays RUNNING unless the step is a
\* create_job with its name, start_job_run on a RUNNING job fails and
\* changes nothing, and a start_job_run that succeeds finds the job READY
\* and leaves it RUNNING
C38_JobStep ==
    \A name \in JobNames :
        OD_Has(jobs, name) =>
            LET before == OD_Get(jobs, name).state
                recreated == last'.op = "create_job" /\ last'.id = name
                started == last'.op = "start_job_run" /\ last'.id = name
            IN  /\ OD_Has(jobs', name)
                /\ before = "RUNNING" /\ ~recreated =>
                       OD_Get(jobs', name).state = "RUNNING"
                /\ before = "RUNNING" /\ started =>
                       /\ last'.res = "ConcurrentRunsExceededException"
                       /\ jobs' = jobs
                /\ started /\ last'.res = "ok" =>
                       /\ before = "READY"
                       /\ OD_Get(jobs', name).state = "RUNNING"
                /\ recreated => OD_Get(jobs', name).state = "READY"

(***************************************************************************)
(* C38: a RUNNING job goes back to READY only by a create_job with its     *)
(* name.  A start_job_run succeeds only on a READY job and leaves it       *)
(* RUNNING, and on a RUNNING job it fails, so that between two create_job  *)
(* calls for a name at most one start_job_run on it succeeds.              *)
(***************************************************************************)
C38_RunningUntilRecreated == [][C38_JobStep]_vars

\* a start_job_run on a job that was started before has just failed
C38_Witness ==
    /\ last.op = "start_job_run"
    /\ last.res = "ConcurrentRunsExceededException"
    /\ OD_Get(jobs, last.id).state = "RUNNING"
    /\ create_job(Glue, last.id, [role |-> "r1"], {}).res = "ok"
    /\ OD_Get(create_job(Glue, last.id, [role |-> "r1"], {}).g.jobs, last.id).state
           = "READY"

\* the tags recorded for an ARN before a step, overwritten key by key by T2,
\* are the tags recorded for it after the step
TagsOverwrittenBy(arn, T2) ==
    LET old == TaggingService_get_tag_dict_for_resource(tagger, arn)
        new == TaggingService_get_tag_dict_for_resource(tagger', arn)
    IN  new = {p \in old : \A q \in T2 : q[1] # p[1]} \cup T2

\* a successful create_crawler or create_job with tags T2 leaves the ARN of
\* the name with the tags it had, overwritten key by key by T2, and a
\* delete_crawler leaves the tags of every ARN as they were
C39_TagStep ==
    /\ last'.op = "create_crawler" /\ last'.res = "ok" =>
           TagsOverwrittenBy(GlueArn("crawler", last'.id), last'.args[2])
    /\ last'.op = "create_job" /\ last'.res = "ok" =>
           TagsOverwrittenBy(GlueArn("job", last'.id), last'.args[2])
    /\ last'.op = "delete_crawler" => tagger' = tagger

(***************************************************************************)
(* C39: tags are kept by ARN and outlive the resource, so a crawler that   *)
(* is created under a name whose ARN has tags recorded (a crawler of that  *)
(* name was deleted) with tags T2 has the recorded tags overwritten key by *)
(* key by T2, the old keys that T2 lacks included, and not T2 alone; the   *)
(* same holds for a job when create_job is called again with its name.     *)
(***************************************************************************)
C39_TagsOutliveResource == [][C39_TagStep]_vars

\* a job was created again with the tag k = v1 and has the earlier tag k2
\* as well
C39_Witness ==
    /\ last.op = "create_job"
    /\ last.res = "ok"
    /\ last.args[2] = {<<"k", "v1">>}
    /\ get_tags(Glue, GlueArn("job", last.id)).ret = {<<"k", "v1">>, <<"k2", "w">>}
====
